---- MODULE Spec2Model ----
(***************************************************************************)
(* Model of the imessage-analysis ETL: extractors, normalizers, loaders,   *)
(* identity resolution and the run_etl orchestrator, as a state machine    *)
(* over the analysis database (analysis.db), the source (chat.db) and the  *)
(* contacts database.                                                      *)
(*                                                                         *)
(* Strings that the code inspects character by character (handle values,   *)
(* phone numbers, e-mail addresses) are sequences of one-character         *)
(* strings.  NULL columns and None are the integer NULL.  ISO-8601         *)
(* timestamps are the integer number of seconds they denote (the fixed-    *)
(* width format orders as the integers do).                                *)
(***************************************************************************)
EXTENDS Integers, Sequences, FiniteSets, TLC

\* ------------------------------------------------------------------ bounds
MaxClock == 1          \* wall-clock seconds the model lets pass
MaxRuns == 2           \* run_etl invocations in one behaviour
MaxFailures == 1       \* statements of run_etl that raise in one behaviour
MaxCalls == 4          \* direct loader calls in one behaviour
MaxSrcChanges == 1     \* edits the external application makes to chat.db
MaxSnapTicks == 2      \* moves of the snapshot clock
MaxGets == 2           \* direct calls of get_or_create_snapshot
MaxSnapRuns == 2       \* run_etl_with_snapshot invocations in one behaviour
MaxCleanups == 2       \* direct calls of cleanup_old_snapshots
MaxKeep == 2           \* largest keep_count given to cleanup_old_snapshots
MaxValidates == 1      \* calls of validate_etl in one behaviour
MaxExtracts == 1       \* calls of extract_messages in one behaviour
MaxDigits == 16        \* digits in an input of the normalizers
MaxNormalizes == 1     \* calls of a normalizer in one behaviour
TicksPerSec == 2       \* source timestamp ticks per second (1e9 in chat.db)

NULL == -1

\* ----------------------------------------------------------- string helpers
Digits == {"0", "1", "2", "3", "4", "5", "6", "7", "8", "9"}

Upper == <<"A", "B", "C", "D", "E", "F", "G", "H", "I", "J", "K", "L", "M",
           "N", "O", "P", "Q", "R", "S", "T", "U", "V", "W", "X", "Y", "Z">>

Lower == <<"a", "b", "c", "d", "e", "f", "g", "h", "i", "j", "k", "l", "m",
           "n", "o", "p", "q", "r", "s", "t", "u", "v", "w", "x", "y", "z">>

\* str.lower() on one character
LowerChar(c) ==
    IF \E i \in 1..26 : Upper[i] = c
    THEN Lower[CHOOSE i \in 1..26 : Upper[i] = c]
    ELSE c

\* str.lower()
LowerStr(s) == [i \in 1..Len(s) |-> LowerChar(s[i])]

\* the whitespace str.strip() drops: the space and, for the others, the tab
Whitespace == {" ", "\t"}

\* str.strip(): drop leading and trailing whitespace
RECURSIVE LStrip(_)
LStrip(s) == IF s # <<>> /\ Head(s) \in Whitespace THEN LStrip(Tail(s)) ELSE s

RECURSIVE RStrip(_)
RStrip(s) ==
    IF s # <<>> /\ s[Len(s)] \in Whitespace
    THEN RStrip(SubSeq(s, 1, Len(s) - 1))
    ELSE s

Strip(s) == RStrip(LStrip(s))

\* re.sub(r"\D", "", s) and DIGITS_ONLY_PATTERN.sub("", s)
ExtractDigits(s) == SelectSeq(s, LAMBDA c : c \in Digits)

\* s.replace(" ", "").replace("-", "")
DropSpacesHyphens(s) == SelectSeq(s, LAMBDA c : c # " " /\ c # "-")

Contains(s, c) == \E i \in 1..Len(s) : s[i] = c

\* ------------------------------------------------------------- normalizers
\* the US rule applied to every number of ten digits or more
normalize_phone_USAlways(raw) ==
    IF raw = <<>> THEN raw
    ELSE LET cleaned  == Strip(raw)
             has_plus == cleaned # <<>> /\ cleaned[1] = "+"
             digits   == ExtractDigits(cleaned)
         IN  IF digits = <<>> THEN raw
             ELSE IF has_plus THEN <<"+">> \o digits
             ELSE IF Len(digits) >= 10 THEN <<"+", "1">> \o digits
             ELSE IF Len(digits) >= 7 THEN <<"+">> \o digits
             ELSE raw

normalize_phone(raw) ==
    IF raw = <<>> THEN raw
    ELSE LET cleaned  == Strip(raw)
             has_plus == cleaned # <<>> /\ cleaned[1] = "+"
             digits   == ExtractDigits(cleaned)
         IN  IF digits = <<>> THEN raw
             ELSE IF has_plus THEN <<"+">> \o digits
             ELSE IF Len(digits) = 10 THEN <<"+", "1">> \o digits
             ELSE IF Len(digits) = 11 /\ digits[1] = "1" THEN <<"+">> \o digits
             ELSE IF Len(digits) >= 7 THEN <<"+">> \o digits
             ELSE raw

normalize_email(raw) ==
    IF raw = <<>> THEN raw
    ELSE LET normalized == LowerStr(Strip(raw))
         IN  IF ~Contains(normalized, "@") THEN raw ELSE normalized

\* a phone number taken to have at most ten digits
detect_contact_type_TenDigits(value) ==
    IF value = <<>> THEN "unknown"
    ELSE LET cleaned == Strip(value)
             digits  == ExtractDigits(cleaned)
         IN  IF Contains(cleaned, "@") THEN "email"
             ELSE IF Len(digits) >= 7 /\ Len(digits) <= 10
                     /\ 2 * Len(digits) >= Len(DropSpacesHyphens(cleaned))
                  THEN "phone"
             ELSE "unknown"

\* a phone number taken to have at most sixteen digits
detect_contact_type_SixteenDigits(value) ==
    IF value = <<>> THEN "unknown"
    ELSE LET cleaned == Strip(value)
             digits  == ExtractDigits(cleaned)
         IN  IF Contains(cleaned, "@") THEN "email"
             ELSE IF Len(digits) >= 7 /\ Len(digits) <= 16
                     /\ 2 * Len(digits) >= Len(DropSpacesHyphens(cleaned))
                  THEN "phone"
             ELSE "unknown"

detect_contact_type(value) ==
    IF value = <<>> THEN "unknown"
    ELSE LET cleaned == Strip(value)
             digits  == ExtractDigits(cleaned)
         IN  IF Contains(cleaned, "@") THEN "email"
             ELSE IF Len(digits) >= 7 /\ Len(digits) <= 15
                     /\ 2 * Len(digits) >= Len(DropSpacesHyphens(cleaned))
                  THEN "phone"
             ELSE "unknown"

\* returns <<normalized, contact_type>>
normalize_handle(value) ==
    LET contact_type == detect_contact_type(value)
    IN  IF contact_type = "email" THEN <<normalize_email(value), contact_type>>
        ELSE IF contact_type = "phone" THEN <<normalize_phone(value), contact_type>>
        ELSE <<IF value # <<>> THEN Strip(value) ELSE value, contact_type>>

\* ------------------------------------------------------------ list helpers
\* rows of a table in the order of an integer key (ORDER BY key)
RECURSIVE SortInts(_)
SortInts(K) ==
    IF K = {} THEN <<>>
    ELSE LET least == CHOOSE x \in K : \A y \in K : x <= y
         IN  <<least>> \o SortInts(K \ {least})

\* key is injective on S (a primary key, or a key made unique by the rowid)
OrderBy(S, key(_)) ==
    LET sorted == SortInts({key(x) : x \in S})
    IN  [i \in 1..Len(sorted) |-> CHOOSE x \in S : key(x) = sorted[i]]

Max(S) == CHOOSE x \in S : \A y \in S : y <= x

\* string literals the code builds display names from
StrUnknownOpen == <<"U", "n", "k", "n", "o", "w", "n", " ", "(">>
StrUnresolved == <<" ", "(", "u", "n", "r", "e", "s", "o", "l", "v", "e", "d", ")">>
StrUnknownContact ==
    <<"U", "n", "k", "n", "o", "w", "n", " ", "C", "o", "n", "t", "a", "c", "t">>
StrNone == <<"\\N">>   \* None in a nullable text column

\* --------------------------------------------------------------- schema.py
SCHEMA_VERSION == "1.0.0"

\* analysis.db right after sqlite creates the file: no tables yet are needed
\* by the model, create_schema is CREATE TABLE IF NOT EXISTS on each
EmptyEtlState ==
    [schema_version |-> "", last_message_date |-> NULL, last_sync |-> NULL,
     last_contacts_sync |-> NULL]

EmptyAnalysis ==
    [dim_person |-> {}, dim_contact_method |-> {}, dim_handle |-> {},
     fact_message |-> {}, etl_state |-> EmptyEtlState, uuid |-> 1]

\* create_schema: tables are kept, the schema_version row is replaced
create_schema(a) == [a EXCEPT !.etl_state.schema_version = SCHEMA_VERSION]

\* ------------------------------------------------------------ extractors.py
APPLE_EPOCH_OFFSET == 978307200

\* nanoseconds since 2001 -> ISO-8601 UTC with second precision, None when the
\* value is None or 0 (out-of-range values are outside the model's dates)
convert_apple_timestamp(ns) ==
    IF ns = NULL \/ ns = 0 THEN NULL
    ELSE (ns \div TicksPerSec) + APPLE_EPOCH_OFFSET

\* since_date -> apple_ns, the exclusive lower bound of extract_messages
since_to_apple_ns(since_date) == (since_date - APPLE_EPOCH_OFFSET) * TicksPerSec

extract_handles(c) ==
    LET row(h) == LET n == normalize_handle(h.id)
                  IN  [rowid |-> h.ROWID, value_raw |-> h.id,
                       value_normalized |-> n[1], handle_type |-> n[2]]
    IN  [i \in 1..Cardinality(c.handle) |->
            row(OrderBy(c.handle, LAMBDA h : h.ROWID)[i])]

\* LEFT JOIN chat_message_join: the chat of a message, NULL when it has none
ChatOf(c, m) ==
    IF \E j \in c.chat_message_join : j.message_id = m.ROWID
    THEN (CHOOSE j \in c.chat_message_join : j.message_id = m.ROWID).chat_id
    ELSE NULL

\* the filter written m.date >= ?
extract_messages_Inclusive(c, since_date) ==
    LET selected == IF since_date # NULL
                    THEN {m \in c.message : m.date # NULL
                                            /\ m.date >= since_to_apple_ns(since_date)}
                    ELSE c.message
        ordered == OrderBy(selected, LAMBDA m : m.date * 1000 + m.ROWID)
        valid == SelectSeq(ordered, LAMBDA m : convert_apple_timestamp(m.date) # NULL)
    IN  [i \in 1..Len(valid) |->
            [rowid |-> valid[i].ROWID, chat_id |-> ChatOf(c, valid[i]),
             handle_id |-> valid[i].handle_id, text |-> valid[i].text,
             date_utc |-> convert_apple_timestamp(valid[i].date),
             date_local |-> NULL, is_from_me |-> (valid[i].is_from_me # 0)]]

extract_messages(c, since_date) ==
    LET selected == IF since_date # NULL
                    THEN {m \in c.message : m.date # NULL
                                            /\ m.date > since_to_apple_ns(since_date)}
                    ELSE c.message
        \* ORDER BY m.date ASC; rows of equal date in ROWID order
        ordered == OrderBy(selected, LAMBDA m : m.date * 1000 + m.ROWID)
        valid == SelectSeq(ordered, LAMBDA m : convert_apple_timestamp(m.date) # NULL)
    IN  [i \in 1..Len(valid) |->
            [rowid |-> valid[i].ROWID, chat_id |-> ChatOf(c, valid[i]),
             handle_id |-> valid[i].handle_id, text |-> valid[i].text,
             date_utc |-> convert_apple_timestamp(valid[i].date),
             date_local |-> NULL, is_from_me |-> (valid[i].is_from_me # 0)]]

extract_contacts(ab) ==
    LET rows == OrderBy(ab.ZABCDRECORD, LAMBDA r : r.Z_PK)
    IN  [i \in 1..Len(rows) |->
            [pk |-> rows[i].Z_PK, first_name |-> rows[i].ZFIRSTNAME,
             last_name |-> rows[i].ZLASTNAME, organization |-> rows[i].ZORGANIZATION,
             nickname |-> rows[i].ZNICKNAME]]

extract_contact_phones(ab) ==
    LET rows == OrderBy({p \in ab.ZABCDPHONENUMBER :
                            p.ZOWNER # NULL /\ p.ZFULLNUMBER # StrNone},
                        LAMBDA p : p.Z_PK)
    IN  [i \in 1..Len(rows) |->
            [pk |-> rows[i].Z_PK, owner_pk |-> rows[i].ZOWNER,
             full_number |-> rows[i].ZFULLNUMBER]]

extract_contact_emails(ab) ==
    LET rows == OrderBy({e \in ab.ZABCDEMAILADDRESS :
                            e.ZOWNER # NULL /\ e.ZADDRESS # StrNone},
                        LAMBDA e : e.Z_PK)
    IN  [i \in 1..Len(rows) |->
            [pk |-> rows[i].Z_PK, owner_pk |-> rows[i].ZOWNER,
             address |-> rows[i].ZADDRESS]]

\* --------------------------------------------------------------- loaders.py
\* uuid.uuid4(): a value never returned before; a.uuid counts the values drawn
generate_person_id(a) == a.uuid

\* load_handles writing NULL into person_id instead of reading the old row
UpsertHandle_ClearsPerson(a, handle, now) ==
    LET old == {r \in a.dim_handle : r.handle_id = handle.rowid}
        created_at == IF old = {} THEN now ELSE (CHOOSE r \in old : TRUE).created_at
    IN  [a EXCEPT !.dim_handle =
            (@ \ old) \cup {[handle_id |-> handle.rowid,
                             value_raw |-> handle.value_raw,
                             value_normalized |-> handle.value_normalized,
                             handle_type |-> handle.handle_type,
                             person_id |-> NULL,
                             created_at |-> created_at,
                             updated_at |-> now]}]

\* load_handles without the COALESCE on created_at
UpsertHandle_ResetsCreated(a, handle, now) ==
    LET old == {r \in a.dim_handle : r.handle_id = handle.rowid}
        person_id == IF old = {} THEN NULL ELSE (CHOOSE r \in old : TRUE).person_id
    IN  [a EXCEPT !.dim_handle =
            (@ \ old) \cup {[handle_id |-> handle.rowid,
                             value_raw |-> handle.value_raw,
                             value_normalized |-> handle.value_normalized,
                             handle_type |-> handle.handle_type,
                             person_id |-> person_id,
                             created_at |-> now,
                             updated_at |-> now]}]

\* one INSERT OR REPLACE of load_handles: the row of the same handle_id is
\* replaced, person_id and created_at are read from it before it goes
UpsertHandle(a, handle, now) ==
    LET old == {r \in a.dim_handle : r.handle_id = handle.rowid}
        person_id == IF old = {} THEN NULL ELSE (CHOOSE r \in old : TRUE).person_id
        created_at == IF old = {} THEN now ELSE (CHOOSE r \in old : TRUE).created_at
    IN  [a EXCEPT !.dim_handle =
            (@ \ old) \cup {[handle_id |-> handle.rowid,
                             value_raw |-> handle.value_raw,
                             value_normalized |-> handle.value_normalized,
                             handle_type |-> handle.handle_type,
                             person_id |-> person_id,
                             created_at |-> created_at,
                             updated_at |-> now]}]

RECURSIVE UpsertHandles(_, _, _)
UpsertHandles(a, handles, now) ==
    IF handles = <<>> THEN a
    ELSE UpsertHandles(UpsertHandle(a, Head(handles), now), Tail(handles), now)

load_handles(a, handles, now) ==
    IF handles = <<>> THEN [a |-> a, ret |-> 0]
    ELSE [a |-> UpsertHandles(a, handles, now), ret |-> Len(handles)]

\* the row load_messages inserts for a message, with a given handle_id
MessageRow(message, handle_id, now) ==
    [message_id |-> message.rowid, chat_id |-> message.chat_id,
     date_utc |-> message.date_utc, date_local |-> message.date_local,
     is_from_me |-> IF message.is_from_me THEN 1 ELSE 0,
     handle_id |-> handle_id, person_id |-> NULL, text |-> message.text,
     created_at |-> now]

\* load_messages without the valid_handle_ids guard
InsertMessage_NoGuard(st, message, valid_handle_ids, now) ==
    IF \E r \in st.a.fact_message : r.message_id = message.rowid THEN st
    ELSE [a |-> [st.a EXCEPT !.fact_message =
                    @ \cup {MessageRow(message, message.handle_id, now)}],
          ret |-> st.ret + 1]

\* load_messages with INSERT OR REPLACE: every row is written and counted
InsertMessage_Replace(st, message, valid_handle_ids, now) ==
    LET handle_id == IF message.handle_id # NULL
                        /\ message.handle_id \notin valid_handle_ids
                     THEN NULL ELSE message.handle_id
    IN  [a |-> [st.a EXCEPT !.fact_message =
                   {r \in @ : r.message_id # message.rowid}
                   \cup {MessageRow(message, handle_id, now)}],
         ret |-> st.ret + 1]

\* load_messages counting every input message instead of cursor.rowcount
InsertMessage_CountsAll(st, message, valid_handle_ids, now) ==
    LET handle_id == IF message.handle_id # NULL
                        /\ message.handle_id \notin valid_handle_ids
                     THEN NULL ELSE message.handle_id
    IN  [a |-> [st.a EXCEPT !.fact_message =
                   IF \E r \in @ : r.message_id = message.rowid THEN @
                   ELSE @ \cup {MessageRow(message, handle_id, now)}],
         ret |-> st.ret + 1]

\* load_messages skipping a message whose handle is not in dim_handle
InsertMessage_RejectsOrphan(st, message, valid_handle_ids, now) ==
    IF \/ \E r \in st.a.fact_message : r.message_id = message.rowid
       \/ (message.handle_id # NULL /\ message.handle_id \notin valid_handle_ids)
    THEN st
    ELSE [a |-> [st.a EXCEPT !.fact_message =
                    @ \cup {MessageRow(message, message.handle_id, now)}],
          ret |-> st.ret + 1]

\* load_messages filling in the handle of a stored message once dim_handle
\* holds it
InsertMessage_BackfillsHandle(st, message, valid_handle_ids, now) ==
    LET handle_id == IF message.handle_id # NULL
                        /\ message.handle_id \notin valid_handle_ids
                     THEN NULL ELSE message.handle_id
    IN  IF \E r \in st.a.fact_message : r.message_id = message.rowid
        THEN [st EXCEPT !.a.fact_message =
                 {IF r.message_id = message.rowid /\ r.handle_id = NULL
                  THEN [r EXCEPT !.handle_id = handle_id] ELSE r : r \in @}]
        ELSE [a |-> [st.a EXCEPT !.fact_message =
                        @ \cup {MessageRow(message, handle_id, now)}],
              ret |-> st.ret + 1]

\* one INSERT OR IGNORE of load_messages; st is [a, loaded]
InsertMessage(st, message, valid_handle_ids, now) ==
    LET handle_id == IF message.handle_id # NULL
                        /\ message.handle_id \notin valid_handle_ids
                     THEN NULL ELSE message.handle_id
        conflict == \/ \E r \in st.a.fact_message : r.message_id = message.rowid
                    \/ message.date_utc = NULL
    IN  IF conflict THEN st
        ELSE [a |-> [st.a EXCEPT !.fact_message =
                        @ \cup {MessageRow(message, handle_id, now)}],
              ret |-> st.ret + 1]

RECURSIVE InsertMessages(_, _, _, _)
InsertMessages(st, messages, valid_handle_ids, now) ==
    IF messages = <<>> THEN st
    ELSE InsertMessages(InsertMessage(st, Head(messages), valid_handle_ids, now),
                        Tail(messages), valid_handle_ids, now)

load_messages(a, messages, now) ==
    IF messages = <<>> THEN [a |-> a, ret |-> 0]
    ELSE LET valid_handle_ids == {r.handle_id : r \in a.dim_handle}
         IN  InsertMessages([a |-> a, ret |-> 0], messages, valid_handle_ids, now)

update_etl_state(a, key, value) == [a EXCEPT !.etl_state[key] = value]

get_etl_state(a, key) == a.etl_state[key]

\* the scalar subquery of link_messages_to_persons: NULL when no row matches
HandlePerson(a, handle_id) ==
    IF \E h \in a.dim_handle : h.handle_id = handle_id
    THEN (CHOOSE h \in a.dim_handle : h.handle_id = handle_id).person_id
    ELSE NULL

\* the UPDATE restricted to the messages that belong to no chat
link_messages_to_persons_NoChatOnly(a) ==
    LET todo == {m \in a.fact_message : m.handle_id # NULL /\ m.person_id = NULL
                                        /\ m.chat_id = NULL}
    IN  [a |-> [a EXCEPT !.fact_message =
                   (@ \ todo)
                   \cup {[m EXCEPT !.person_id = HandlePerson(a, m.handle_id)] : m \in todo}],
         ret |-> Cardinality(todo)]

link_messages_to_persons(a) ==
    LET todo == {m \in a.fact_message : m.handle_id # NULL /\ m.person_id = NULL}
    IN  [a |-> [a EXCEPT !.fact_message =
                   (@ \ todo)
                   \cup {[m EXCEPT !.person_id = HandlePerson(a, m.handle_id)] : m \in todo}],
         ret |-> Cardinality(todo)]

build_display_name(contact) ==
    LET truthy(x) == x # StrNone /\ x # <<>>
    IN  IF truthy(contact.first_name) /\ truthy(contact.last_name)
        THEN contact.first_name \o <<" ">> \o contact.last_name
        ELSE IF truthy(contact.first_name) THEN contact.first_name
        ELSE IF truthy(contact.last_name) THEN contact.last_name
        ELSE IF truthy(contact.organization) THEN contact.organization
        ELSE IF truthy(contact.nickname) THEN contact.nickname
        ELSE StrUnknownContact

\* st is [a, map]; map is the contact_to_person dictionary
RECURSIVE InsertContactPersons(_, _, _)
InsertContactPersons(st, contacts, now) ==
    IF contacts = <<>> THEN st
    ELSE LET contact == Head(contacts)
             person_id == generate_person_id(st.a)
             a2 == [st.a EXCEPT
                      !.uuid = @ + 1,
                      !.dim_person = @ \cup {[person_id |-> person_id,
                                              first_name |-> contact.first_name,
                                              last_name |-> contact.last_name,
                                              display_name |-> build_display_name(contact),
                                              source |-> "contacts",
                                              created_at |-> now,
                                              updated_at |-> now]}]
             map2 == [k \in DOMAIN st.map \cup {contact.pk} |->
                         IF k = contact.pk THEN person_id ELSE st.map[k]]
         IN  InsertContactPersons([a |-> a2, map |-> map2], Tail(contacts), now)

\* returns [a, ret, map]: (len(contacts), contact_to_person)
load_persons_from_contacts(a, contacts, now) ==
    IF contacts = <<>> THEN [a |-> a, ret |-> 0, map |-> <<>>]
    ELSE LET st == InsertContactPersons([a |-> a, map |-> <<>>], contacts, now)
         IN  [a |-> st.a, ret |-> Len(contacts), map |-> st.map]

\* one loop of load_contact_methods over phones or emails; st is [a, ret]
RECURSIVE InsertContactMethods(_, _, _, _, _)
InsertContactMethods(st, methods, type, contact_to_person, now) ==
    IF methods = <<>> THEN st
    ELSE LET m == Head(methods)
             rest == Tail(methods)
             value == IF type = "phone" THEN m.full_number ELSE m.address
         IN  IF m.owner_pk \notin DOMAIN contact_to_person
             THEN InsertContactMethods(st, rest, type, contact_to_person, now)
             ELSE LET method_id == generate_person_id(st.a)
                      normalized == IF type = "phone" THEN normalize_phone(value)
                                    ELSE normalize_email(value)
                      row == [method_id |-> method_id,
                              person_id |-> contact_to_person[m.owner_pk],
                              type |-> type,
                              value_raw |-> value,
                              value_normalized |-> normalized,
                              created_at |-> now]
                  IN  InsertContactMethods(
                          [a |-> [st.a EXCEPT !.uuid = @ + 1,
                                              !.dim_contact_method = @ \cup {row}],
                           ret |-> st.ret + 1],
                          rest, type, contact_to_person, now)

load_contact_methods(a, phones, emails, contact_to_person, now) ==
    InsertContactMethods(
        InsertContactMethods([a |-> a, ret |-> 0], phones, "phone", contact_to_person, now),
        emails, "email", contact_to_person, now)

\* -------------------------------------------------------------- identity.py
\* rows of dim_contact_method in the order a scan returns them: insertion
\* order, which is the order the method ids were drawn in
MethodsInOrder(a) == OrderBy(a.dim_contact_method, LAMBDA m : m.method_id)

Last10(digits) == SubSeq(digits, Len(digits) - 9, Len(digits))

\* resolve_handle_to_person applying the last-10-digits rule to every handle
resolve_handle_to_person_AnyType(a, handle_normalized, handle_type) ==
    LET methods == MethodsInOrder(a)
        exact == SelectSeq(methods, LAMBDA m : m.value_normalized = handle_normalized)
        handle_digits == ExtractDigits(handle_normalized)
        fuzzy == SelectSeq(methods,
                    LAMBDA m : /\ m.type = "phone"
                               /\ Len(handle_digits) >= 10
                               /\ Len(ExtractDigits(m.value_normalized)) >= 10
                               /\ Last10(ExtractDigits(m.value_normalized))
                                     = Last10(handle_digits))
    IN  IF exact # <<>> THEN exact[1].person_id
        ELSE IF Len(handle_digits) >= 10 /\ fuzzy # <<>>
             THEN fuzzy[1].person_id
        ELSE NULL

resolve_handle_to_person(a, handle_normalized, handle_type) ==
    LET methods == MethodsInOrder(a)
        exact == SelectSeq(methods, LAMBDA m : m.value_normalized = handle_normalized)
        handle_digits == ExtractDigits(handle_normalized)
        fuzzy == SelectSeq(methods,
                    LAMBDA m : /\ m.type = "phone"
                               /\ Len(handle_digits) >= 10
                               /\ Len(ExtractDigits(m.value_normalized)) >= 10
                               /\ Last10(ExtractDigits(m.value_normalized))
                                     = Last10(handle_digits))
    IN  IF exact # <<>> THEN exact[1].person_id
        ELSE IF handle_type = "phone" /\ Len(handle_digits) >= 10 /\ fuzzy # <<>>
             THEN fuzzy[1].person_id
        ELSE NULL

UnknownDisplayName(handle_value, handle_type) ==
    IF handle_type = "phone" THEN StrUnknownOpen \o handle_value \o <<")">>
    ELSE IF handle_type = "email"
         THEN (IF Contains(handle_value, "@")
               THEN SubSeq(handle_value, 1,
                           (CHOOSE i \in 1..Len(handle_value) :
                               /\ handle_value[i] = "@"
                               /\ \A j \in 1..(i - 1) : handle_value[j] # "@") - 1)
               ELSE handle_value) \o StrUnresolved
    ELSE IF Len(handle_value) > 20
         THEN StrUnknownOpen \o SubSeq(handle_value, 1, 20) \o <<".", ".", ".", ")">>
    ELSE StrUnknownOpen \o handle_value \o <<")">>

\* returns [a, ret]: ret is the new person_id
create_unknown_person(a, handle_value, handle_type, now) ==
    LET person_id == generate_person_id(a)
    IN  [a |-> [a EXCEPT
                  !.uuid = @ + 1,
                  !.dim_person = @ \cup {[person_id |-> person_id,
                                          first_name |-> StrNone,
                                          last_name |-> StrNone,
                                          display_name |->
                                              UnknownDisplayName(handle_value, handle_type),
                                          source |-> "inferred",
                                          created_at |-> now,
                                          updated_at |-> now]}],
         ret |-> person_id]

\* link_handle_to_person whose UPDATE matches no row
link_handle_to_person_NoRow(a, handle_id, person_id, now) == a

link_handle_to_person(a, handle_id, person_id, now) ==
    [a EXCEPT !.dim_handle =
        {IF h.handle_id = handle_id
         THEN [h EXCEPT !.person_id = person_id, !.updated_at = now]
         ELSE h : h \in @}]

\* resolve_all_handles selecting every handle, linked or not
UnresolvedHandles_All(a) ==
    OrderBy(a.dim_handle, LAMBDA h : h.handle_id)

\* the SELECT of resolve_all_handles: (handle_id, value_normalized, handle_type)
\* of every handle without a person, in handle_id order
UnresolvedHandles(a) ==
    OrderBy({h \in a.dim_handle : h.person_id = NULL}, LAMBDA h : h.handle_id)

\* resolve_all_handles creating a person for every row, matched or not
ResolveOne_AlwaysCreates(a, row, now) ==
    LET c == create_unknown_person(a, row.value_normalized, row.handle_type, now)
    IN  link_handle_to_person(c.a, row.handle_id, c.ret, now)

\* the body of the loop of resolve_all_handles for one fetched row
ResolveOne(a, row, now) ==
    LET found == resolve_handle_to_person(a, row.value_normalized, row.handle_type)
    IN  IF found # NULL
        THEN link_handle_to_person(a, row.handle_id, found, now)
        ELSE LET c == create_unknown_person(a, row.value_normalized, row.handle_type, now)
             IN  link_handle_to_person(c.a, row.handle_id, c.ret, now)

RECURSIVE ResolveRows(_, _, _)
ResolveRows(a, rows, now) ==
    IF rows = <<>> THEN a
    ELSE ResolveRows(ResolveOne(a, Head(rows), now), Tail(rows), now)

resolve_all_handles(a, now) ==
    LET unresolved == UnresolvedHandles(a)
    IN  [a |-> ResolveRows(a, unresolved, now), ret |-> Len(unresolved)]

\* ------------------------------------------------------- the environment
\* character sequences of the values the stores hold
Str4155551234 == <<"4", "1", "5", "5", "5", "5", "1", "2", "3", "4">>
StrPlus1Formatted ==
    <<"+", "1", " ", "(", "4", "1", "5", ")", " ", "5", "5", "5", "-", "1", "2", "3", "4">>
StrFormatted == <<"(", "4", "1", "5", ")", " ", "5", "5", "5", "-", "1", "2", "3", "4">>
StrEmailMixed == <<"A", "@", "b", ".", "c">>
StrShort == <<"5", "5", "5", "1", "2", "3", "4">>
StrLocal == <<"8", "6", "7", "5", "3", "0", "9">>
StrPlus10 == <<"+", "4", "1", "5", "5", "5", "5", "1", "2", "3", "4">>
StrPlus11 == <<"+", "1", "4", "1", "5", "5", "5", "5", "1", "2", "3", "4">>
StrPlusOther == <<"+", "1", "9", "8", "7", "5", "5", "5", "1", "2", "3", "4">>
StrEmailLower == <<"a", "@", "b", ".", "c">>
StrA == <<"A">>
StrB == <<"B">>
StrHi == <<"h", "i">>

\* the AddressBook database: one contact with two phones and an e-mail, and a
\* phone whose owner is not a record
AddressBook ==
    [ZABCDRECORD |-> {[Z_PK |-> 1, ZFIRSTNAME |-> StrA, ZLASTNAME |-> StrB,
                       ZORGANIZATION |-> StrNone, ZNICKNAME |-> StrNone]},
     ZABCDPHONENUMBER |-> {[Z_PK |-> 1, ZOWNER |-> 1, ZFULLNUMBER |-> StrFormatted],
                           [Z_PK |-> 2, ZOWNER |-> 9, ZFULLNUMBER |-> StrShort],
                           [Z_PK |-> 3, ZOWNER |-> 1, ZFULLNUMBER |-> StrLocal]},
     ZABCDEMAILADDRESS |-> {[Z_PK |-> 1, ZOWNER |-> 1, ZADDRESS |-> StrEmailMixed]}]

\* rows the external application can hold in chat.db
SrcHandlePool ==
    {[ROWID |-> 1, id |-> StrPlus1Formatted],
     [ROWID |-> 2, id |-> StrEmailMixed]}

SrcMessagePool ==
    {[ROWID |-> 1, handle_id |-> 1, text |-> StrHi, date |-> 3, is_from_me |-> 0],
     [ROWID |-> 2, handle_id |-> 0, text |-> StrHi, date |-> 5, is_from_me |-> 1],
     [ROWID |-> 3, handle_id |-> 2, text |-> StrNone, date |-> 2, is_from_me |-> 0],
     [ROWID |-> 4, handle_id |-> 1, text |-> StrHi, date |-> 0, is_from_me |-> 0]}

SrcJoinPool == {[chat_id |-> 1, message_id |-> 1]}

EmptyChat == [handle |-> {}, message |-> {}, chat_message_join |-> {}]

SampleChat ==
    [handle |-> {[ROWID |-> 1, id |-> Str4155551234]},
     message |-> {m \in SrcMessagePool : m.ROWID \in {1, 2, 4}},
     chat_message_join |-> SrcJoinPool]

\* ------------------------------------------------------------ validation.py
\* E164_PATTERN: + and 7 to 15 digits
E164(value) ==
    /\ Len(value) >= 8
    /\ Len(value) <= 16
    /\ value[1] = "+"
    /\ \A i \in 2..Len(value) : value[i] \in Digits

ValidationCheck(name, passed) == [name |-> name, passed |-> passed]

check_handle_count(c, a) ==
    ValidationCheck("Handle count",
                    Cardinality(c.handle) = Cardinality(a.dim_handle))

check_message_count(c, a) ==
    ValidationCheck("Message count",
                    Cardinality(a.fact_message) <= Cardinality(c.message))

check_no_orphan_messages(a) ==
    LET orphan == {m \in a.fact_message :
                      /\ m.handle_id # NULL
                      /\ \A h \in a.dim_handle : h.handle_id # m.handle_id}
    IN  ValidationCheck("No orphan messages", Cardinality(orphan) = 0)

\* 90% or more of the phone handles match E164_PATTERN
check_normalization_quality(a) ==
    LET phones == {h \in a.dim_handle : h.handle_type = "phone"}
        valid == {h \in phones : E164(h.value_normalized)}
    IN  ValidationCheck("Phone normalization",
                        \/ phones = {}
                        \/ 100 * Cardinality(valid) >= 90 * Cardinality(phones))

\* schema_version and last_sync are rows of etl_state; a last_sync written by
\* _now_iso matches ISO8601_PATTERN
check_etl_state(a) ==
    ValidationCheck("ETL state",
                    a.etl_state.schema_version # "" /\ a.etl_state.last_sync # NULL)

\* a date_utc written by convert_apple_timestamp matches the GLOB pattern
check_date_formats(a) ==
    LET invalid == {m \in a.fact_message : m.date_utc # NULL /\ m.date_utc < 0}
    IN  ValidationCheck("Date formats", Cardinality(invalid) = 0)

check_contacts_loaded(a) == ValidationCheck("Contacts loaded", TRUE)

check_contact_methods_linked(a) ==
    LET orphaned == {m \in a.dim_contact_method : m.person_id = NULL}
    IN  ValidationCheck("Contact methods linked",
                        a.dim_contact_method = {} \/ Cardinality(orphaned) = 0)

check_identity_resolution_rate(a) ==
    ValidationCheck("Identity resolution rate", TRUE)

\* the checks of validate_etl in the order it appends them
AllChecks(c, a, include_contacts_checks) ==
    <<check_handle_count(c, a), check_message_count(c, a),
      check_no_orphan_messages(a), check_normalization_quality(a),
      check_etl_state(a), check_date_formats(a)>>
    \o (IF include_contacts_checks
        THEN <<check_contacts_loaded(a), check_contact_methods_linked(a),
               check_identity_resolution_rate(a)>>
        ELSE <<>>)

\* all() over the hard checks alone
AllPassed_HardOnly(checks) ==
    \A i \in 1..Len(checks) :
        checks[i].name \in {"Handle count", "Message count", "No orphan messages",
                            "Phone normalization", "ETL state", "Date formats"}
            => checks[i].passed

\* all(check.passed for check in checks)
AllPassed(checks) == \A i \in 1..Len(checks) : checks[i].passed

\* the try block encloses the checks but not the two connects
CaughtByValidate_ChecksOnly(fault) == fault # 0

\* except Exception around the connects and every check (lines 429-457)
CaughtByValidate(fault) == TRUE

\* fault: NULL when nothing raises, else the number of checks appended before
\* a connect (0) or a query raises; an analysis.db that was never created
\* cannot be opened with mode=ro.  raised: the exception left validate_etl.
validate_etl(c, a, include_contacts_checks, fault) ==
    LET all == AllChecks(c, a, include_contacts_checks)
        at == IF a.etl_state.schema_version = "" THEN 0 ELSE fault
        checks == IF at = NULL THEN all
                  ELSE SubSeq(all, 1, at)
                       \o <<ValidationCheck("Connection", FALSE)>>
    IN  IF at # NULL /\ ~CaughtByValidate(at)
        THEN [raised |-> TRUE, passed |-> FALSE, checks |-> <<>>]
        ELSE [raised |-> FALSE, passed |-> AllPassed(checks), checks |-> checks]

\* -------------------------------------------------------------- snapshot.py
\* total_seconds() / (24 * 60 * 60)
SECONDS_PER_DAY == 86400

\* A path is its directory and its file name; a file name is stem, timestamp
\* (NULL when it carries none) and suffix.  Times are whole seconds.
NoPath == [dir |-> "none", stem |-> "", ts |-> NULL, suffix |-> ""]

SourcePath(source) ==
    [dir |-> "source", stem |-> source.stem, ts |-> NULL, suffix |-> source.suffix]

\* f"{stem}_{ts}{suffix}": strftime drops the microseconds of created_at
_default_snapshot_filename(source, created_at) ==
    [dir |-> "snapshots",
     stem |-> IF source.stem # "" THEN source.stem ELSE "chat",
     ts |-> created_at,
     suffix |-> IF source.suffix # "" THEN source.suffix ELSE ".db"]

NoInfo == [path |-> NoPath, created_at |-> NULL, source_stem |-> ""]

\* _SNAPSHOT_PATTERN: a stem, a timestamp and the suffix .db, nothing else
_parse_snapshot_filename(filename) ==
    IF filename.stem # "" /\ filename.ts # NULL /\ filename.suffix = ".db"
    THEN [path |-> filename, created_at |-> filename.ts,
          source_stem |-> filename.stem]
    ELSE NoInfo

\* the SnapshotInfo of every file of the directory that parses to the stem
list_snapshots(files, source_stem) ==
    {info \in {_parse_snapshot_filename(f.name) : f \in files} :
        info # NoInfo /\ info.source_stem = source_stem}

\* snapshots[0] of the list sorted newest first
get_latest_snapshot(files, source_stem) ==
    LET snapshots == list_snapshots(files, source_stem)
    IN  IF snapshots = {} THEN NoInfo
        ELSE CHOOSE i \in snapshots :
                 \A j \in snapshots : j.created_at <= i.created_at

\* age_days > max_age_days; datetime.now() is now, plus a fraction of a
\* second when frac, and created_at is a whole second
Older(info, max_age_days, now, frac) ==
    IF frac THEN now - info.created_at >= max_age_days * SECONDS_PER_DAY
    ELSE now - info.created_at > max_age_days * SECONDS_PER_DAY

snapshot_needs_refresh(s, max_age_days, source_stem, frac) ==
    LET latest == get_latest_snapshot(s.files, source_stem)
    IN  IF latest = NoInfo THEN TRUE
        ELSE Older(latest, max_age_days, s.now, frac)

\* the record of a file being opened: its path, the mode, the function
Opened(path, mode, by) == [path |-> path, mode |-> mode, by |-> by]

\* The backup of the source, whose content is content, into the file named
\* after the source and the clock; a file of that name is overwritten.
\* sqlite3.connect of a source that cannot be opened raises before the
\* snapshot file is created.
create_timestamped_snapshot(s, content) ==
    LET snapshot_path == _default_snapshot_filename(s.source, s.now)
        by == "create_timestamped_snapshot"
    IN  IF s.source.state = "unreadable"
        THEN [s |-> s, ret |-> NoPath, raised |-> "sqlite3.OperationalError"]
        ELSE [s |-> [s EXCEPT
                        !.files = {f \in @ : f.name # snapshot_path}
                                  \cup {[name |-> snapshot_path, content |-> content]},
                        !.opens = @ \cup {Opened(SourcePath(s.source), "ro", by),
                                          Opened(snapshot_path, "rw", by)},
                        !.copies = @ + 1],
              ret |-> snapshot_path, raised |-> ""]

get_or_create_snapshot(s, content, max_age_days, force_new, frac) ==
    IF s.source.state = "missing"
    THEN [s |-> s, ret |-> NoPath, raised |-> "FileNotFoundError"]
    ELSE LET needs_new ==
                 force_new \/ snapshot_needs_refresh(s, max_age_days,
                                                     s.source.stem, frac)
         IN  IF needs_new THEN create_timestamped_snapshot(s, content)
             ELSE [s |-> s,
                   ret |-> get_latest_snapshot(s.files, s.source.stem).path,
                   raised |-> ""]

\* snapshots.sort(key=created_at, reverse=True)
RECURSIVE NewestFirst(_)
NewestFirst(snapshots) ==
    IF snapshots = {} THEN <<>>
    ELSE LET n == CHOOSE i \in snapshots :
                      \A j \in snapshots : j.created_at <= i.created_at
         IN  <<n>> \o NewestFirst(snapshots \ {n})

\* the paths of the sequence from position i on whose unlink does not raise
RECURSIVE UnlinkFrom(_, _, _)
UnlinkFrom(snapshots, i, undeletable) ==
    IF i > Len(snapshots) THEN <<>>
    ELSE (IF snapshots[i].path \in undeletable THEN <<>>
          ELSE <<snapshots[i].path>>)
         \o UnlinkFrom(snapshots, i + 1, undeletable)

\* every listed snapshot after the keep_count newest is unlinked; an OSError
\* (the files of undeletable raise it) is logged and the loop goes on
cleanup_old_snapshots(s, keep_count, source_stem, undeletable) ==
    LET snapshots == NewestFirst(list_snapshots(s.files, source_stem))
        deleted == UnlinkFrom(snapshots, keep_count + 1, undeletable)
    IN  [s |-> [s EXCEPT !.files =
                    {f \in @ : \A i \in 1..Len(deleted) : deleted[i] # f.name}],
         ret |-> deleted]

\* the sources a snapshot is asked of: chat.db, chat.sqlite and chat
SourceInputs ==
    {[stem |-> "chat", suffix |-> x, state |-> y] :
        x \in {".db", ".sqlite", ""}, y \in {"ok", "missing", "unreadable"}}

\* last: the last get_or_create_snapshot call, its arguments, what it returned
\* or raised, the files of the directory before it and whether it made a copy
NoGet ==
    [n |-> 0, max_age_days |-> 0, force_new |-> FALSE, frac |-> FALSE,
     ret |-> NoPath, raised |-> "", before |-> {}, now |-> 0, copied |-> FALSE,
     by |-> "none"]

\* copies: the backups made into the directory so far

NoSnap(source) ==
    [now |-> 0, ticks |-> 0, source |-> source, files |-> {}, opens |-> {},
     copies |-> 0, last |-> NoGet]

\* -------------------------------------------------------------- pipeline.py
VARIABLES
    chat,        \* the source chat.db (or its snapshot)
    analysis,    \* the target analysis.db, committed state
    clock,       \* the wall clock _now_iso() reads
    pc,          \* the statement of run_etl about to execute; "idle" outside it
    run,         \* the arguments and locals of the run_etl invocation
    log,         \* one entry per run_etl invocation: arguments and ETLResult
    raised,      \* an exception left run_etl
    src_edits,   \* how many edits the external application made to chat.db
    recovery,    \* the run a chain of failed runs is re-invoked to complete
    call,        \* the last direct call of a loader: operation, input, result
    first_load,  \* per handle id, the clock at its first load_handles
    snap         \* the snapshots directory, the source file and the snapshot clock

vars == <<chat, analysis, clock, pc, run, log, raised, src_edits, recovery,
          call, first_load, snap>>

RunLocals ==
    [force_full |-> FALSE, contacts_db_path |-> "none", is_incremental |-> FALSE,
     last_message_date |-> NULL, handles |-> <<>>, messages |-> <<>>,
     handles_loaded |-> 0, messages_loaded |-> 0, contacts_extracted |-> 0,
     contact_methods_loaded |-> 0, contacts_synced |-> FALSE,
     contacts_conn |-> FALSE, contacts |-> <<>>, contact_to_person |-> <<>>,
     unresolved |-> <<>>, person_id |-> NULL, handles_resolved |-> 0,
     messages_linked |-> 0, open |-> {},
     chat_db_path |-> SourcePath([stem |-> "chat", suffix |-> ".db"]),
     snapshot_path |-> NoPath, snapshot_created |-> FALSE]

\* the database at chat_db_path: the source, or a file of the snapshots
\* directory
ChatDb ==
    IF run.chat_db_path.dir = "source" THEN chat
    ELSE (CHOOSE f \in snap.files : f.name = run.chat_db_path).content

\* where the loop of resolve_all_handles goes after a row
AfterRow(rest) == IF rest = <<>> THEN "link_messages" ELSE "resolve_handle"

\* The statements of run_etl (lines 169-252), each on the committed database
\* a, the locals r and the source c: the position, database and locals after
\* it.
\* create_schema(analysis_db_path)
StepCreateSchema(a, r, c, now) ==
    [pc |-> "open_chat", a |-> create_schema(a), r |-> r]

\* chat_conn = sqlite3.connect(..., mode=ro)
StepOpenChat(a, r, c, now) ==
    [pc |-> "open_analysis", a |-> a,
     r |-> [r EXCEPT !.open = @ \cup {"chat"}]]

\* analysis_conn = sqlite3.connect(analysis_db_path)
StepOpenAnalysis(a, r, c, now) ==
    [pc |-> IF r.contacts_db_path # "none" THEN "open_contacts" ELSE "get_state",
     a |-> a, r |-> [r EXCEPT !.open = @ \cup {"analysis"}]]

\* contacts_conn, when a contacts database is given and exists; for a file
\* without the table ZABCDRECORD the connection is made, the probe query
\* raises and _open_contacts_db returns None
StepOpenContacts(a, r, c, now) ==
    [pc |-> "get_state", a |-> a,
     r |-> IF r.contacts_db_path = "ok"
           THEN [r EXCEPT !.contacts_conn = TRUE, !.open = @ \cup {"contacts"}]
           ELSE IF r.contacts_db_path = "no_table"
           THEN [r EXCEPT !.open = @ \cup {"contacts"}]
           ELSE r]

\* get_etl_state read whether or not force_full is set
StepGetState_IgnoresForceFull(a, r, c, now) ==
    LET last == get_etl_state(a, "last_message_date")
    IN  [pc |-> "handles", a |-> a,
         r |-> [r EXCEPT !.last_message_date = last,
                         !.is_incremental = (last # NULL)]]

\* is_incremental and last_message_date
StepGetState(a, r, c, now) ==
    LET last == IF ~r.force_full THEN get_etl_state(a, "last_message_date")
                ELSE NULL
    IN  [pc |-> "handles", a |-> a,
         r |-> [r EXCEPT !.last_message_date = last,
                         !.is_incremental = (last # NULL)]]

\* extract and load handles
StepLoadHandles(a, r, c, now) ==
    LET handles == extract_handles(c)
        l == load_handles(a, handles, now)
    IN  [pc |-> "messages", a |-> l.a,
         r |-> [r EXCEPT !.handles = handles, !.handles_loaded = l.ret]]

\* the checkpoint stored with the messages, in the statement that loads them
StepLoadMessages_StoresCheckpoint(a, r, c, now) ==
    LET messages == extract_messages(c, r.last_message_date)
        l == load_messages(a, messages, now)
    IN  [pc |-> IF r.contacts_conn THEN "persons" ELSE "resolve",
         a |-> IF messages # <<>>
               THEN update_etl_state(l.a, "last_message_date",
                        Max({messages[i].date_utc : i \in 1..Len(messages)}))
               ELSE l.a,
         r |-> [r EXCEPT !.messages = messages, !.messages_loaded = l.ret]]

\* extract and load messages
StepLoadMessages(a, r, c, now) ==
    LET messages == extract_messages(c, r.last_message_date)
        l == load_messages(a, messages, now)
    IN  [pc |-> IF r.contacts_conn THEN "persons" ELSE "resolve",
         a |-> l.a,
         r |-> [r EXCEPT !.messages = messages, !.messages_loaded = l.ret]]

\* load_persons_from_contacts on the extracted contacts
StepLoadPersons(a, r, c, now) ==
    LET contacts == extract_contacts(AddressBook)
        l == load_persons_from_contacts(a, contacts, now)
    IN  [pc |-> "contact_methods", a |-> l.a,
         r |-> [r EXCEPT !.contacts = contacts, !.contact_to_person = l.map]]

\* load_contact_methods on the extracted phones and emails
StepLoadContactMethods(a, r, c, now) ==
    LET l == load_contact_methods(a, extract_contact_phones(AddressBook),
                                  extract_contact_emails(AddressBook),
                                  r.contact_to_person, now)
    IN  [pc |-> "contacts_state", a |-> l.a,
         r |-> [r EXCEPT !.contact_methods_loaded = l.ret]]

\* last_contacts_sync
StepContactsState(a, r, c, now) ==
    [pc |-> "resolve",
     a |-> update_etl_state(a, "last_contacts_sync", now),
     r |-> [r EXCEPT !.contacts_extracted = Len(r.contacts),
                     !.contacts_synced = TRUE]]

\* the SELECT of resolve_all_handles
StepResolveFetch(a, r, c, now) ==
    LET unresolved == UnresolvedHandles(a)
    IN  [pc |-> AfterRow(unresolved), a |-> a,
         r |-> [r EXCEPT !.unresolved = unresolved]]

\* one row of the loop: resolve, or create an unknown person
StepResolveHandle(a, r, c, now) ==
    LET row == Head(r.unresolved)
        found == resolve_handle_to_person(a, row.value_normalized,
                                          row.handle_type)
        c2 == create_unknown_person(a, row.value_normalized,
                                    row.handle_type, now)
    IN  IF found # NULL
        THEN [pc |-> AfterRow(Tail(r.unresolved)),
              a |-> link_handle_to_person(a, row.handle_id, found, now),
              r |-> [r EXCEPT !.unresolved = Tail(@),
                              !.handles_resolved = @ + 1]]
        ELSE [pc |-> "link_handle", a |-> c2.a,
              r |-> [r EXCEPT !.person_id = c2.ret]]

\* link the handle to the person just created
StepLinkHandle(a, r, c, now) ==
    [pc |-> AfterRow(Tail(r.unresolved)),
     a |-> link_handle_to_person(a, Head(r.unresolved).handle_id,
                                 r.person_id, now),
     r |-> [r EXCEPT !.unresolved = Tail(@), !.person_id = NULL,
                     !.handles_resolved = @ + 1]]

\* link_messages_to_persons
StepLinkMessages(a, r, c, now) ==
    LET l == link_messages_to_persons(a)
    IN  [pc |-> "state_message_date", a |-> l.a,
         r |-> [r EXCEPT !.messages_linked = l.ret]]

\* last_message_date, only when messages were extracted
StepStateMessageDate(a, r, c, now) ==
    [pc |-> "state_last_sync",
     a |-> IF r.messages # <<>>
           THEN update_etl_state(a, "last_message_date",
                    Max({r.messages[i].date_utc : i \in 1..Len(r.messages)}))
           ELSE a,
     r |-> r]

\* last_sync
StepStateLastSync(a, r, c, now) ==
    [pc |-> "return", a |-> update_etl_state(a, "last_sync", now), r |-> r]

\* the statement of run_etl at position p
Step(p, a, r, c, now) ==
    CASE p = "create_schema" -> StepCreateSchema(a, r, c, now)
      [] p = "open_chat" -> StepOpenChat(a, r, c, now)
      [] p = "open_analysis" -> StepOpenAnalysis(a, r, c, now)
      [] p = "open_contacts" -> StepOpenContacts(a, r, c, now)
      [] p = "get_state" -> StepGetState(a, r, c, now)
      [] p = "handles" -> StepLoadHandles(a, r, c, now)
      [] p = "messages" -> StepLoadMessages(a, r, c, now)
      [] p = "persons" -> StepLoadPersons(a, r, c, now)
      [] p = "contact_methods" -> StepLoadContactMethods(a, r, c, now)
      [] p = "contacts_state" -> StepContactsState(a, r, c, now)
      [] p = "resolve" -> StepResolveFetch(a, r, c, now)
      [] p = "resolve_handle" -> StepResolveHandle(a, r, c, now)
      [] p = "link_handle" -> StepLinkHandle(a, r, c, now)
      [] p = "link_messages" -> StepLinkMessages(a, r, c, now)
      [] p = "state_message_date" -> StepStateMessageDate(a, r, c, now)
      [] p = "state_last_sync" -> StepStateLastSync(a, r, c, now)

\* run_etl from its first statement to its return with no exception: the
\* database it leaves
RECURSIVE RunFrom(_, _, _, _, _)
RunFrom(p, a, r, c, now) ==
    IF p = "return" THEN a
    ELSE LET n == Step(p, a, r, c, now)
         IN  RunFrom(n.pc, n.a, n.r, c, now)

FullRun(a, c, force_full, contacts_db_path, now) ==
    RunFrom("create_schema", a,
            [RunLocals EXCEPT !.force_full = force_full,
                              !.contacts_db_path = contacts_db_path],
            c, now)

\* create_schema called before the try block
InTry_SchemaOutside(p) == p # "create_schema"

\* the try block of run_etl (lines 166-280) encloses every statement
InTry(p) == TRUE

\* str(e) of the exception a statement raises
ErrorText(p) ==
    IF p \in {"open_chat", "open_analysis", "open_contacts"}
    THEN "unable to open database file"
    ELSE IF p = "create_schema" THEN "disk I/O error"
    ELSE "database is locked"

\* ETLResult of the success path (lines 256-269)
SuccessResult(r) ==
    [success |-> TRUE, handles_extracted |-> Len(r.handles),
     handles_loaded |-> r.handles_loaded, messages_extracted |-> Len(r.messages),
     messages_loaded |-> r.messages_loaded, handles_resolved |-> r.handles_resolved,
     messages_linked |-> r.messages_linked, is_incremental |-> r.is_incremental,
     contacts_extracted |-> r.contacts_extracted,
     contact_methods_loaded |-> r.contact_methods_loaded,
     contacts_synced |-> r.contacts_synced, error |-> ""]

\* ETLResult of the except clause (lines 283-294); error None is ""
FailureResult(r, p) ==
    [success |-> FALSE, handles_extracted |-> 0, handles_loaded |-> 0,
     messages_extracted |-> 0, messages_loaded |-> 0, handles_resolved |-> 0,
     messages_linked |-> 0, is_incremental |-> r.is_incremental,
     contacts_extracted |-> 0, contact_methods_loaded |-> 0,
     contacts_synced |-> FALSE, error |-> ErrorText(p)]

\* what a chain of re-invocations is compared on: rows without their
\* timestamps and person ids, and the number of persons
Projection(a) ==
    [handles |-> {[handle_id |-> h.handle_id, value_raw |-> h.value_raw,
                   value_normalized |-> h.value_normalized,
                   handle_type |-> h.handle_type,
                   linked |-> (h.person_id # NULL)] : h \in a.dim_handle},
     messages |-> {[message_id |-> m.message_id, chat_id |-> m.chat_id,
                    date_utc |-> m.date_utc, is_from_me |-> m.is_from_me,
                    handle_id |-> m.handle_id, text |-> m.text,
                    linked |-> (m.person_id # NULL)] : m \in a.fact_message},
     persons |-> Cardinality(a.dim_person)]

HandleIds == {1, 2}

FirstLoadAfter(handles, now) ==
    [id \in HandleIds |->
        IF first_load[id] = NULL /\ \E i \in 1..Len(handles) : handles[i].rowid = id
        THEN now ELSE first_load[id]]

\* settled: resolve_all_handles has run and no load_handles brought a handle id
\* the target did not hold since; was_settled: settled before the last call
\* q: the resolve_handle_to_person query made since the last call
NoQuery == [value |-> <<>>, type |-> "none", ret |-> NULL]

NoCall ==
    [n |-> 0, op |-> "none", arg |-> <<>>, ret |-> 0, settled |-> FALSE,
     was_settled |-> FALSE, q |-> NoQuery]

\* checkpoint: etl_state.last_message_date when the last run_etl was invoked
NoRecovery ==
    [valid |-> FALSE, force_full |-> FALSE, contacts_db_path |-> "none",
     failures |-> 0, expected |-> Projection(EmptyAnalysis), checkpoint |-> NULL]

Init ==
    /\ chat \in {EmptyChat, SampleChat}
    /\ analysis = EmptyAnalysis
    /\ clock = 0
    /\ pc = "idle"
    /\ run = RunLocals
    /\ log = <<>>
    /\ raised = FALSE
    /\ src_edits = 0
    /\ recovery = NoRecovery
    /\ call = NoCall
    /\ first_load = [id \in HandleIds |-> NULL]
    /\ snap = NoSnap([stem |-> "chat", suffix |-> ".db", state |-> "ok"])

\* ------------------------------------------------------------- environment
Tick ==
    /\ pc = "idle"
    /\ clock < MaxClock
    /\ clock' = clock + 1
    /\ UNCHANGED <<chat, analysis, pc, run, log, raised, src_edits, recovery,
                   call, first_load, snap>>

\* the external application adds a handle, or rewrites the id of one
SrcPutHandle ==
    /\ pc = "idle"
    /\ src_edits < MaxSrcChanges
    /\ \E h \in SrcHandlePool \ chat.handle :
          chat' = [chat EXCEPT !.handle =
                      {x \in @ : x.ROWID # h.ROWID} \cup {h}]
    /\ src_edits' = src_edits + 1
    /\ UNCHANGED <<analysis, clock, pc, run, log, raised, recovery, call, first_load, snap>>

\* the external application stores a message
SrcAddMessage ==
    /\ pc = "idle"
    /\ src_edits < MaxSrcChanges
    /\ \E m \in SrcMessagePool \ chat.message :
          chat' = [chat EXCEPT
                      !.message = @ \cup {m},
                      !.chat_message_join =
                          @ \cup {j \in SrcJoinPool : j.message_id = m.ROWID}]
    /\ src_edits' = src_edits + 1
    /\ UNCHANGED <<analysis, clock, pc, run, log, raised, recovery, call, first_load, snap>>

\* the external application deletes a handle or a message
SrcDelete ==
    /\ pc = "idle"
    /\ src_edits < MaxSrcChanges
    /\ \/ \E h \in chat.handle : chat' = [chat EXCEPT !.handle = @ \ {h}]
       \/ \E m \in chat.message :
             chat' = [chat EXCEPT
                         !.message = @ \ {m},
                         !.chat_message_join =
                             {j \in @ : j.message_id # m.ROWID}]
    /\ src_edits' = src_edits + 1
    /\ UNCHANGED <<analysis, clock, pc, run, log, raised, recovery, call, first_load, snap>>

\* ------------------------------------------------------------------ run_etl
RunStart ==
    /\ pc = "idle"
    /\ Len(log) < MaxRuns
    /\ \E force_full \in BOOLEAN, contacts_db_path \in {"none", "unreachable", "ok"} :
          /\ run' = [RunLocals EXCEPT !.force_full = force_full,
                                      !.contacts_db_path = contacts_db_path]
          /\ recovery' =
                IF /\ log # <<>>
                   /\ ~log[Len(log)].result.success
                   /\ log[Len(log)].src_edits = src_edits
                   /\ recovery.valid
                   /\ recovery.force_full = force_full
                   /\ recovery.contacts_db_path = contacts_db_path
                THEN [recovery EXCEPT
                         !.checkpoint = get_etl_state(analysis, "last_message_date")]
                ELSE [valid |-> TRUE, force_full |-> force_full,
                      contacts_db_path |-> contacts_db_path, failures |-> 0,
                      expected |-> Projection(FullRun(analysis, chat, force_full,
                                                      contacts_db_path, clock)),
                      checkpoint |-> get_etl_state(analysis, "last_message_date")]
    /\ pc' = "create_schema"
    /\ UNCHANGED <<chat, analysis, clock, log, raised, src_edits, call, first_load, snap>>

Advance(p, n) ==
    /\ pc = p
    /\ pc' = n.pc
    /\ analysis' = n.a
    /\ run' = n.r
    /\ UNCHANGED <<chat, clock, log, raised, src_edits, recovery, call>>

CreateSchema ==
    /\ Advance("create_schema", StepCreateSchema(analysis, run, ChatDb, clock))
    /\ UNCHANGED <<first_load, snap>>
OpenChat ==
    /\ Advance("open_chat", StepOpenChat(analysis, run, ChatDb, clock))
    /\ snap' = [snap EXCEPT
                   !.opens = @ \cup {Opened(run.chat_db_path, "ro", "_open_chat_db")}]
    /\ UNCHANGED first_load
OpenAnalysis ==
    /\ Advance("open_analysis", StepOpenAnalysis(analysis, run, ChatDb, clock))
    /\ UNCHANGED <<first_load, snap>>
OpenContacts ==
    /\ Advance("open_contacts", StepOpenContacts(analysis, run, ChatDb, clock))
    /\ UNCHANGED <<first_load, snap>>
GetState ==
    /\ Advance("get_state", StepGetState(analysis, run, ChatDb, clock))
    /\ UNCHANGED <<first_load, snap>>
LoadHandles ==
    /\ Advance("handles", StepLoadHandles(analysis, run, ChatDb, clock))
    /\ first_load' = FirstLoadAfter(extract_handles(ChatDb), clock)
    /\ UNCHANGED snap
LoadMessages ==
    /\ Advance("messages", StepLoadMessages(analysis, run, ChatDb, clock))
    /\ UNCHANGED <<first_load, snap>>
LoadPersons ==
    /\ Advance("persons", StepLoadPersons(analysis, run, ChatDb, clock))
    /\ UNCHANGED <<first_load, snap>>
LoadContactMethods ==
    /\ Advance("contact_methods", StepLoadContactMethods(analysis, run, ChatDb, clock))
    /\ UNCHANGED <<first_load, snap>>
ContactsState ==
    /\ Advance("contacts_state", StepContactsState(analysis, run, ChatDb, clock))
    /\ UNCHANGED <<first_load, snap>>
ResolveFetch ==
    /\ Advance("resolve", StepResolveFetch(analysis, run, ChatDb, clock))
    /\ UNCHANGED <<first_load, snap>>
ResolveHandle ==
    /\ Advance("resolve_handle", StepResolveHandle(analysis, run, ChatDb, clock))
    /\ UNCHANGED <<first_load, snap>>
LinkHandle ==
    /\ Advance("link_handle", StepLinkHandle(analysis, run, ChatDb, clock))
    /\ UNCHANGED <<first_load, snap>>
LinkMessages ==
    /\ Advance("link_messages", StepLinkMessages(analysis, run, ChatDb, clock))
    /\ UNCHANGED <<first_load, snap>>
StateMessageDate ==
    /\ Advance("state_message_date", StepStateMessageDate(analysis, run, ChatDb, clock))
    /\ UNCHANGED <<first_load, snap>>
StateLastSync ==
    /\ Advance("state_last_sync", StepStateLastSync(analysis, run, ChatDb, clock))
    /\ UNCHANGED <<first_load, snap>>

\* the statements inside the inner try block, whose finally clause closes
\* the connections (lines 183-278)
InFinally(p) ==
    p \notin {"idle", "create_schema", "open_chat", "open_analysis", "open_contacts"}

\* the connections the finally clause closes
Closed(r) ==
    {"chat", "analysis"} \cup (IF r.contacts_conn THEN {"contacts"} ELSE {})

\* the connections still open when run_etl returns from position p
OpenAtReturn(r, p) == IF InFinally(p) THEN r.open \ Closed(r) ELSE r.open

\* rowid and timestamp of the Message objects of a list
Extracted(messages) ==
    {[rowid |-> messages[i].rowid, date_utc |-> messages[i].date_utc] :
        i \in 1..Len(messages)}

\* what extract_messages had returned when the statement at pc raised: at
\* step 4 and 5 either extract_messages raised, or load_messages did
ExtractedBeforeFailure ==
    {Extracted(run.messages)}
    \cup (IF pc = "messages"
          THEN {Extracted(extract_messages(ChatDb, run.last_message_date))}
          ELSE {})

\* what the caller of run_etl knows of an invocation: its arguments, the
\* ETLResult, and what the databases held when it was invoked and returned;
\* extracted is the list the invocation had in messages when it ended
LogEntry(result) ==
    [force_full |-> run.force_full, contacts_db_path |-> run.contacts_db_path,
     src_edits |-> src_edits, result |-> result,
     checkpoint |-> recovery.checkpoint,
     src_handles |-> Cardinality(chat.handle),
     messages |-> Cardinality(analysis.fact_message),
     handles |-> Cardinality(analysis.dim_handle),
     persons |-> Cardinality(analysis.dim_person),
     snapshot_path |-> run.snapshot_path,
     snapshot_created |-> run.snapshot_created,
     extracted |-> Extracted(run.messages),
     open |-> OpenAtReturn(run, pc)]

\* return result (line 272), the finally clause closing the connections
Return ==
    /\ pc = "return"
    /\ log' = Append(log, LogEntry(SuccessResult(run)))
    /\ pc' = "idle"
    /\ run' = RunLocals
    /\ UNCHANGED <<chat, analysis, clock, raised, src_edits, recovery, call, first_load, snap>>

Failures ==
    Cardinality({i \in 1..Len(log) : ~log[i].result.success})
    + (IF raised THEN 1 ELSE 0)

\* the statement at pc raises before it commits anything
Fail ==
    /\ pc \notin {"idle", "return"}
    /\ Failures < MaxFailures
    /\ IF InTry(pc)
       THEN /\ \E extracted \in ExtractedBeforeFailure :
                  log' = Append(log, [LogEntry(FailureResult(run, pc))
                                         EXCEPT !.extracted = extracted])
            /\ UNCHANGED raised
       ELSE /\ raised' = TRUE
            /\ UNCHANGED log
    /\ recovery' = [recovery EXCEPT !.failures = @ + 1]
    /\ pc' = "idle"
    /\ run' = RunLocals
    /\ UNCHANGED <<chat, analysis, clock, src_edits, call, first_load, snap>>

Next ==
    \/ Tick
    \/ SrcPutHandle
    \/ SrcAddMessage
    \/ SrcDelete
    \/ RunStart
    \/ CreateSchema
    \/ OpenChat
    \/ OpenAnalysis
    \/ OpenContacts
    \/ GetState
    \/ LoadHandles
    \/ LoadMessages
    \/ LoadPersons
    \/ LoadContactMethods
    \/ ContactsState
    \/ ResolveFetch
    \/ ResolveHandle
    \/ LinkHandle
    \/ LinkMessages
    \/ StateMessageDate
    \/ StateLastSync
    \/ Return
    \/ Fail

Spec == Init /\ [][Next]_vars

\* ------------------------------------------------- loaders called directly
\* Handle objects as extract_handles builds them
MkHandle(rowid, raw) ==
    [rowid |-> rowid, value_raw |-> raw,
     value_normalized |-> normalize_handle(raw)[1],
     handle_type |-> normalize_handle(raw)[2]]

HandleInputs ==
    {<<MkHandle(1, Str4155551234)>>,
     <<MkHandle(1, StrEmailMixed)>>,
     <<MkHandle(2, StrEmailMixed)>>,
     <<MkHandle(1, Str4155551234), MkHandle(2, StrEmailMixed)>>,
     <<MkHandle(1, StrEmailMixed), MkHandle(1, Str4155551234)>>,
     <<MkHandle(1, StrPlus1Formatted), MkHandle(2, StrShort)>>}

\* Message objects as extract_messages builds them
MkMessage(rowid, handle_id, date_utc) ==
    [rowid |-> rowid, chat_id |-> NULL, handle_id |-> handle_id, text |-> StrHi,
     date_utc |-> date_utc, date_local |-> NULL, is_from_me |-> FALSE]

MessageInputs ==
    {<<MkMessage(1, 1, APPLE_EPOCH_OFFSET + 1)>>,
     <<MkMessage(2, 2, APPLE_EPOCH_OFFSET + 2)>>,
     <<MkMessage(2, NULL, APPLE_EPOCH_OFFSET + 2)>>,
     <<MkMessage(1, 1, APPLE_EPOCH_OFFSET + 1), MkMessage(2, 2, APPLE_EPOCH_OFFSET + 2)>>,
     <<MkMessage(1, 1, APPLE_EPOCH_OFFSET + 1), MkMessage(1, 2, APPLE_EPOCH_OFFSET + 1)>>}

\* contact_to_person dictionaries over the persons the target holds
MapInputs ==
    {<<>>} \cup {<<p.person_id>> : p \in {q \in analysis.dim_person :
                                             q.source = "contacts"}}

Called(op, arg, ret) ==
    call' = [n |-> call.n + 1, op |-> op, arg |-> arg, ret |-> ret,
             settled |->
                 IF op = "resolve_all_handles" THEN TRUE
                 ELSE IF /\ op = "load_handles"
                         /\ \E i \in 1..Len(arg) :
                               \A h \in analysis.dim_handle : h.handle_id # arg[i].rowid
                      THEN FALSE
                 ELSE call.settled,
             was_settled |-> call.settled,
             q |-> NoQuery]

CanCall ==
    /\ pc = "idle"
    /\ call.n < MaxCalls

CallLoadHandles ==
    /\ CanCall
    /\ \E handles \in HandleInputs :
          LET l == load_handles(analysis, handles, clock)
          IN  /\ analysis' = l.a
              /\ Called("load_handles", handles, l.ret)
              /\ first_load' = FirstLoadAfter(handles, clock)
    /\ UNCHANGED <<chat, clock, pc, run, log, raised, src_edits, recovery, snap>>

CallLoadMessages ==
    /\ CanCall
    /\ \E messages \in MessageInputs :
          LET l == load_messages(analysis, messages, clock)
          IN  /\ analysis' = l.a
              /\ Called("load_messages", messages, l.ret)
    /\ UNCHANGED <<chat, clock, pc, run, log, raised, src_edits, recovery, first_load, snap>>

CallLoadPersons ==
    /\ CanCall
    /\ LET contacts == extract_contacts(AddressBook)
           l == load_persons_from_contacts(analysis, contacts, clock)
       IN  /\ analysis' = l.a
           /\ Called("load_persons_from_contacts", contacts, l.ret)
    /\ UNCHANGED <<chat, clock, pc, run, log, raised, src_edits, recovery, first_load, snap>>

CallLoadContactMethods ==
    /\ CanCall
    /\ \E contact_to_person \in MapInputs :
          LET l == load_contact_methods(analysis, extract_contact_phones(AddressBook),
                                        extract_contact_emails(AddressBook),
                                        contact_to_person, clock)
          IN  /\ analysis' = l.a
              /\ Called("load_contact_methods", contact_to_person, l.ret)
    /\ UNCHANGED <<chat, clock, pc, run, log, raised, src_edits, recovery, first_load, snap>>

CallResolveAll ==
    /\ CanCall
    /\ LET l == resolve_all_handles(analysis, clock)
       IN  /\ analysis' = l.a
           /\ Called("resolve_all_handles", <<>>, l.ret)
    /\ UNCHANGED <<chat, clock, pc, run, log, raised, src_edits, recovery, first_load, snap>>

CallLinkMessages ==
    /\ CanCall
    /\ LET l == link_messages_to_persons(analysis)
       IN  /\ analysis' = l.a
           /\ Called("link_messages_to_persons", <<>>, l.ret)
    /\ UNCHANGED <<chat, clock, pc, run, log, raised, src_edits, recovery, first_load, snap>>

\* arguments of resolve_handle_to_person: values that match a contact method
\* exactly, by their last 10 digits, by fewer digits, or not at all
ResolveInputs ==
    {<<StrPlus11, "phone">>, <<StrPlus11, "email">>, <<StrPlus10, "phone">>,
     <<StrPlus10, "email">>, <<StrPlus10, "unknown">>, <<StrLocal, "phone">>,
     <<StrPlusOther, "phone">>, <<StrEmailLower, "email">>}

\* resolve_handle_to_person called directly: a query, the target is not written
CallResolve ==
    /\ pc = "idle"
    /\ call.q = NoQuery
    /\ \E in \in ResolveInputs :
          call' = [call EXCEPT !.q =
                      [value |-> in[1], type |-> in[2],
                       ret |-> resolve_handle_to_person(analysis, in[1], in[2])]]
    /\ UNCHANGED <<chat, analysis, clock, pc, run, log, raised, src_edits, recovery,
                   first_load, snap>>

NextLoad ==
    \/ Tick
    \/ CallLoadHandles
    \/ CallLoadMessages
    \/ CallLoadPersons
    \/ CallLoadContactMethods
    \/ CallResolveAll
    \/ CallLinkMessages

SpecLoad == Init /\ [][NextLoad]_vars

\* the contact loaders and resolve_handle_to_person on what they stored
NextResolve ==
    \/ CallLoadPersons
    \/ CallLoadContactMethods
    \/ CallResolve

SpecResolve == Init /\ [][NextResolve]_vars

\* ---------------------------------------------------- run_etl_with_snapshot
MaxAgeInputs == {0, 7}

\* the clock of datetime.now() moves on by a second, a day or ten days
SnapTick ==
    /\ pc = "idle"
    /\ snap.ticks < MaxSnapTicks
    /\ \E d \in {1, SECONDS_PER_DAY, 10 * SECONDS_PER_DAY} :
          snap' = [snap EXCEPT !.now = @ + d, !.ticks = @ + 1]
    /\ UNCHANGED <<chat, analysis, clock, pc, run, log, raised, src_edits, recovery,
                   call, first_load>>

GetCall(g, max_age_days, force_new, frac, by) ==
    [n |-> snap.last.n + (IF by = "caller" THEN 1 ELSE 0),
     max_age_days |-> max_age_days, force_new |-> force_new, frac |-> frac,
     ret |-> g.ret, raised |-> g.raised, before |-> snap.files, now |-> snap.now,
     copied |-> (g.s.copies # snap.copies), by |-> by]

\* get_or_create_snapshot called directly
CallGetOrCreate ==
    /\ pc = "idle"
    /\ snap.last.n < MaxGets
    /\ \E max_age_days \in MaxAgeInputs, force_new \in BOOLEAN, frac \in BOOLEAN :
          LET g == get_or_create_snapshot(snap, chat, max_age_days, force_new, frac)
          IN  snap' = [g.s EXCEPT
                          !.last = GetCall(g, max_age_days, force_new, frac, "caller")]
    /\ UNCHANGED <<chat, analysis, clock, pc, run, log, raised, src_edits, recovery,
                   call, first_load>>

\* chat_db_path=snapshot_path given the source path
RunEtlChatDbPath_Source(source_db_path, snapshot_path) == source_db_path

\* chat_db_path=snapshot_path (line 399)
RunEtlChatDbPath(source_db_path, snapshot_path) == snapshot_path

\* the except clause catches nothing
Caught_Nothing(e) == FALSE

\* except (FileNotFoundError, PermissionError) (line 379)
Caught(e) == e \in {"FileNotFoundError", "PermissionError"}

\* ETLResult of the except clause of run_etl_with_snapshot (lines 382-393)
SnapshotErrorResult ==
    [success |-> FALSE, handles_extracted |-> 0, handles_loaded |-> 0,
     messages_extracted |-> 0, messages_loaded |-> 0, handles_resolved |-> 0,
     messages_linked |-> 0, is_incremental |-> FALSE,
     contacts_extracted |-> 0, contact_methods_loaded |-> 0,
     contacts_synced |-> FALSE,
     error |-> "Snapshot error: Source database not found"]

\* run_etl_with_snapshot up to its call of run_etl (lines 360-403), with
\* force_full off and no contacts database: the result of the except clause,
\* an exception that leaves it, or run_etl entered on the snapshot
RunSnapshotStart ==
    /\ pc = "idle"
    /\ Len(log) + (IF raised THEN 1 ELSE 0) < MaxSnapRuns
    /\ \E max_age_days \in MaxAgeInputs, force_new \in BOOLEAN, frac \in BOOLEAN :
          LET existing_snapshot == get_latest_snapshot(snap.files, snap.source.stem)
              snapshot_existed ==
                  /\ existing_snapshot # NoInfo
                  /\ ~Older(existing_snapshot, max_age_days, snap.now, frac)
              g == get_or_create_snapshot(snap, chat, max_age_days, force_new, frac)
          IN  /\ snap' = [g.s EXCEPT
                             !.last = GetCall(g, max_age_days, force_new, frac,
                                              "run_etl_with_snapshot")]
              /\ IF g.raised = ""
                 THEN /\ run' = [RunLocals EXCEPT
                                    !.chat_db_path =
                                        RunEtlChatDbPath(SourcePath(snap.source), g.ret),
                                    !.snapshot_path = g.ret,
                                    !.snapshot_created =
                                        (~snapshot_existed \/ force_new)]
                      /\ pc' = "create_schema"
                      /\ UNCHANGED <<log, raised>>
                 ELSE IF Caught(g.raised)
                 THEN /\ log' = Append(log, LogEntry(SnapshotErrorResult))
                      /\ UNCHANGED <<pc, run, raised>>
                 ELSE /\ raised' = TRUE
                      /\ UNCHANGED <<pc, run, log>>
    /\ recovery' = [NoRecovery EXCEPT
                       !.checkpoint = get_etl_state(analysis, "last_message_date")]
    /\ UNCHANGED <<chat, analysis, clock, src_edits, call, first_load>>

InitSnap ==
    /\ chat = SampleChat
    /\ analysis = EmptyAnalysis
    /\ clock = 0
    /\ pc = "idle"
    /\ run = RunLocals
    /\ log = <<>>
    /\ raised = FALSE
    /\ src_edits = 0
    /\ recovery = NoRecovery
    /\ call = NoCall
    /\ first_load = [id \in HandleIds |-> NULL]
    /\ snap \in {NoSnap(source) : source \in SourceInputs}

\* get_or_create_snapshot called while the clock moves and the source changes
NextSnap ==
    \/ SnapTick
    \/ SrcAddMessage
    \/ CallGetOrCreate

SpecSnap == InitSnap /\ [][NextSnap]_vars

\* run_etl_with_snapshot invoked while the clock moves and the source changes
NextSnapRun ==
    \/ SnapTick
    \/ SrcAddMessage
    \/ RunSnapshotStart
    \/ CreateSchema
    \/ OpenChat
    \/ OpenAnalysis
    \/ GetState
    \/ LoadHandles
    \/ LoadMessages
    \/ ResolveFetch
    \/ ResolveHandle
    \/ LinkHandle
    \/ LinkMessages
    \/ StateMessageDate
    \/ StateLastSync
    \/ Return
    \/ Fail

SpecSnapRun == InitSnap /\ [][NextSnapRun]_vars

\* ---------------------------------------------------- cleanup_old_snapshots
\* files create_timestamped_snapshot writes for chat.db, chat.sqlite and
\* sms.db, a day apart
SnapshotFile(stem, suffix, ts) ==
    [name |-> _default_snapshot_filename([stem |-> stem, suffix |-> suffix], ts),
     content |-> EmptyChat]

DirectoryPool ==
    {SnapshotFile("chat", ".db", d * SECONDS_PER_DAY) : d \in 0..2}
    \cup {SnapshotFile("chat", ".sqlite", d * SECONDS_PER_DAY) : d \in 3..4}
    \cup {SnapshotFile("sms", ".db", d * SECONDS_PER_DAY) : d \in 1..2}

\* a snapshots directory filled by earlier get_or_create_snapshot calls
InitCleanup ==
    /\ chat = SampleChat
    /\ analysis = EmptyAnalysis
    /\ clock = 0
    /\ pc = "idle"
    /\ run = RunLocals
    /\ log = <<>>
    /\ raised = FALSE
    /\ src_edits = 0
    /\ recovery = NoRecovery
    /\ call = NoCall
    /\ first_load = [id \in HandleIds |-> NULL]
    /\ \E files \in SUBSET DirectoryPool :
          snap = [NoSnap([stem |-> "chat", suffix |-> ".db", state |-> "ok"])
                     EXCEPT !.files = files]

\* cleanup_old_snapshots called directly; at most one unlink raises OSError
CallCleanup ==
    /\ pc = "idle"
    /\ call.n < MaxCleanups
    /\ \E keep_count \in 0..MaxKeep, source_stem \in {"chat", "sms"},
          undeletable \in {{}} \cup {{f.name} : f \in snap.files} :
          LET c == cleanup_old_snapshots(snap, keep_count, source_stem, undeletable)
          IN  /\ snap' = c.s
              /\ call' = [call EXCEPT
                             !.n = @ + 1, !.op = "cleanup_old_snapshots",
                             !.arg = [keep_count |-> keep_count,
                                      source_stem |-> source_stem,
                                      undeletable |-> undeletable,
                                      before |-> snap.files],
                             !.ret = c.ret]
    /\ UNCHANGED <<chat, analysis, clock, pc, run, log, raised, src_edits, recovery,
                   first_load>>

NextCleanup == CallCleanup

SpecCleanup == InitCleanup /\ [][NextCleanup]_vars

\* ------------------------------------------------------------ validate_etl
FaultInputs == {NULL, 0, 7}

\* validate_etl called on the source and the target as they are
CallValidate ==
    /\ pc = "idle"
    /\ \E include_contacts_checks \in BOOLEAN :
       \E fault \in {f \in FaultInputs :
                        f < (IF include_contacts_checks THEN 9 ELSE 6)} :
          LET v == validate_etl(chat, analysis, include_contacts_checks, fault)
          IN  /\ call' = [call EXCEPT
                             !.n = @ + 1, !.op = "validate_etl",
                             !.arg = [include_contacts_checks |->
                                          include_contacts_checks,
                                      fault |-> fault],
                             !.ret = [passed |-> v.passed, checks |-> v.checks]]
              /\ raised' = (raised \/ v.raised)
    /\ call.n < MaxValidates
    /\ UNCHANGED <<chat, analysis, clock, pc, run, log, src_edits, recovery,
                   first_load, snap>>

\* a step of run_etl on a source that gains and loses rows
RunEtlStep ==
    \/ SrcAddMessage
    \/ SrcDelete
    \/ RunStart
    \/ CreateSchema
    \/ OpenChat
    \/ OpenAnalysis
    \/ OpenContacts
    \/ GetState
    \/ LoadHandles
    \/ LoadMessages
    \/ LoadPersons
    \/ LoadContactMethods
    \/ ContactsState
    \/ ResolveFetch
    \/ ResolveHandle
    \/ LinkHandle
    \/ LinkMessages
    \/ StateMessageDate
    \/ StateLastSync
    \/ Return
    \/ Fail

\* runs of run_etl, then validate_etl on what they left
NextValidate ==
    \/ call.op # "validate_etl" /\ RunEtlStep
    \/ CallValidate

SpecValidate == Init /\ [][NextValidate]_vars

\* -------------------------------------------------------- extract_messages
\* messages of a chat.db: with and without a timestamp, two of one timestamp,
\* one half a second after a whole second
ExtractMessagePool ==
    SrcMessagePool
    \cup {[ROWID |-> 5, handle_id |-> 1, text |-> StrHi, date |-> NULL,
           is_from_me |-> 0],
          [ROWID |-> 6, handle_id |-> 2, text |-> StrHi, date |-> 4,
           is_from_me |-> 1],
          [ROWID |-> 7, handle_id |-> 0, text |-> StrNone, date |-> 4,
           is_from_me |-> 0]}

\* since_date: None, or the ISO-8601 form of a whole second
SinceInputs == {NULL} \cup {APPLE_EPOCH_OFFSET + s : s \in 0..3}

InitExtract ==
    /\ chat \in {[handle |-> SampleChat.handle, message |-> M,
                  chat_message_join |->
                      {j \in SrcJoinPool : \E m \in M : m.ROWID = j.message_id}] :
                     M \in SUBSET ExtractMessagePool}
    /\ analysis = EmptyAnalysis
    /\ clock = 0
    /\ pc = "idle"
    /\ run = RunLocals
    /\ log = <<>>
    /\ raised = FALSE
    /\ src_edits = 0
    /\ recovery = NoRecovery
    /\ call = NoCall
    /\ first_load = [id \in HandleIds |-> NULL]
    /\ snap = NoSnap([stem |-> "chat", suffix |-> ".db", state |-> "ok"])

CallExtract ==
    /\ pc = "idle"
    /\ call.n < MaxExtracts
    /\ \E since_date \in SinceInputs :
          call' = [call EXCEPT !.n = @ + 1, !.op = "extract_messages",
                               !.arg = since_date,
                               !.ret = extract_messages(chat, since_date)]
    /\ UNCHANGED <<chat, analysis, clock, pc, run, log, raised, src_edits,
                   recovery, first_load, snap>>

NextExtract == CallExtract

SpecExtract == InitExtract /\ [][NextExtract]_vars

\* ---------------------------------------------------- normalizers called
\* what precedes the digits of an input, and what follows them
LeadInputs == {<<>>, <<" ">>, <<"+">>, <<"\t", "+">>, <<"(">>, <<"x", "+">>}

TailInputs ==
    {<<>>, <<" ">>, <<"@", "B", ".", "C">>,
     <<" ", "e", "x", "t", "e", "n", "s", "i", "o">>}

SeparatorInputs == {<<>>, <<"-">>, <<" ">>, <<")">>}

DigitChars == <<"0", "1", "2", "3", "4", "5", "6", "7", "8", "9">>

\* n digits, the first one given, with a separator after the third
DigitRun(n, first, sep) ==
    LET d(i) == IF i = 1 THEN first ELSE DigitChars[(i % 10) + 1]
        ds == [i \in 1..n |-> d(i)]
    IN  IF n > 3 THEN SubSeq(ds, 1, 3) \o sep \o SubSeq(ds, 4, n) ELSE ds

NormalizerInputs ==
    {lead \o DigitRun(n, first, sep) \o tail :
        lead \in LeadInputs, n \in 0..MaxDigits, first \in {"1", "4"},
        sep \in SeparatorInputs, tail \in TailInputs}

InitNorm ==
    /\ chat = EmptyChat
    /\ analysis = EmptyAnalysis
    /\ clock = 0
    /\ pc = "idle"
    /\ run = RunLocals
    /\ log = <<>>
    /\ raised = FALSE
    /\ src_edits = 0
    /\ recovery = NoRecovery
    /\ call \in {[NoCall EXCEPT !.arg = value] : value \in NormalizerInputs}
    /\ first_load = [id \in HandleIds |-> NULL]
    /\ snap = NoSnap([stem |-> "chat", suffix |-> ".db", state |-> "ok"])

\* a normalizer applied to the input, and once more to what it returned
Normalized(op, value) ==
    IF op = "normalize_phone"
    THEN [once |-> normalize_phone(value),
          twice |-> normalize_phone(normalize_phone(value))]
    ELSE IF op = "normalize_email"
    THEN [once |-> normalize_email(value),
          twice |-> normalize_email(normalize_email(value))]
    ELSE [once |-> normalize_handle(value),
          twice |-> normalize_handle(normalize_handle(value)[1])]

CallNormalize ==
    /\ pc = "idle"
    /\ call.n < MaxNormalizes
    /\ \E op \in {"normalize_phone", "normalize_email", "normalize_handle"} :
          call' = [call EXCEPT !.n = @ + 1, !.op = op,
                               !.ret = Normalized(op, call.arg)]
    /\ UNCHANGED <<chat, analysis, clock, pc, run, log, raised, src_edits,
                   recovery, first_load, snap>>

NextNorm == CallNormalize

SpecNorm == InitNorm /\ [][NextNorm]_vars

\* ------------------------------------------- run_etl and its connections
\* contacts_db_path: not given, a missing file, a database without the
\* table ZABCDRECORD, the AddressBook
ContactsPathInputs == {"none", "unreachable", "no_table", "ok"}

RunHandlesStart ==
    /\ pc = "idle"
    /\ Len(log) < MaxRuns
    /\ \E force_full \in BOOLEAN, contacts_db_path \in ContactsPathInputs :
          run' = [RunLocals EXCEPT !.force_full = force_full,
                                   !.contacts_db_path = contacts_db_path]
    /\ recovery' = [NoRecovery EXCEPT
                       !.checkpoint = get_etl_state(analysis, "last_message_date")]
    /\ pc' = "create_schema"
    /\ UNCHANGED <<chat, analysis, clock, log, raised, src_edits, call, first_load, snap>>

NextHandles ==
    \/ RunHandlesStart
    \/ CreateSchema
    \/ OpenChat
    \/ OpenAnalysis
    \/ OpenContacts
    \/ GetState
    \/ LoadHandles
    \/ LoadMessages
    \/ LoadPersons
    \/ LoadContactMethods
    \/ ContactsState
    \/ ResolveFetch
    \/ ResolveHandle
    \/ LinkHandle
    \/ LinkMessages
    \/ StateMessageDate
    \/ StateLastSync
    \/ Return
    \/ Fail

SpecHandles == Init /\ [][NextHandles]_vars

\* ---------------------------------------------------------------- properties
LastEntry == log[Len(log)]

HandleIdsOf(a) == {h.handle_id : h \in a.dim_handle}

PersonIdsOf(a) == {q.person_id : q \in a.dim_person}

\* C1: after every run that completes successfully, every message with a
\* non-null handle reference references a handle stored in the target, and
\* every handle with a non-null person reference references a stored person.
C1_NoOrphansAfterRun ==
    (pc = "idle" /\ log # <<>> /\ LastEntry.result.success) =>
        /\ \A m \in analysis.fact_message :
              m.handle_id # NULL => m.handle_id \in HandleIdsOf(analysis)
        /\ \A h \in analysis.dim_handle :
              h.person_id # NULL => h.person_id \in PersonIdsOf(analysis)

\* a second run has completed successfully on a target with a message that
\* references a handle, a message without a handle and a linked handle
C1_Witness ==
    /\ pc = "idle"
    /\ Len(log) = 2
    /\ LastEntry.result.success
    /\ \E m \in analysis.fact_message : m.handle_id # NULL
    /\ \E m \in analysis.fact_message : m.handle_id = NULL
    /\ \E h \in analysis.dim_handle : h.person_id # NULL

\* two runs in succession, both successful, force_full off both times, with no
\* edit of the source between them
Successive(i) ==
    /\ i + 1 <= Len(log)
    /\ log[i].result.success
    /\ log[i + 1].result.success
    /\ ~log[i].force_full
    /\ ~log[i + 1].force_full
    /\ log[i].src_edits = log[i + 1].src_edits

Rows(a) ==
    [dim_person |-> a.dim_person,
     dim_contact_method |-> a.dim_contact_method,
     dim_handle |-> {[handle_id |-> h.handle_id, value_raw |-> h.value_raw,
                      value_normalized |-> h.value_normalized,
                      handle_type |-> h.handle_type, person_id |-> h.person_id,
                      created_at |-> h.created_at] : h \in a.dim_handle},
     fact_message |-> a.fact_message]

Repeated == call'.n = call.n + 1 /\ call'.op = call.op /\ call'.arg = call.arg

\* C3: every load and resolve step is idempotent: applying it a second time
\* with the same input leaves the rows of the target unchanged.
C3_StepsIdempotent ==
    [][Repeated => Rows(analysis') = Rows(analysis)]_vars

\* C4: a successful run that follows failed runs with the same arguments on
\* an unedited source leaves the handle rows, the message rows and the number
\* of persons that one uninterrupted run would have left.
C4_ReinvocationRecovers ==
    (pc = "idle" /\ log # <<>> /\ LastEntry.result.success
        /\ recovery.valid /\ recovery.failures >= 1) =>
        Projection(analysis) = recovery.expected

C6_ResolvedIsTerminal ==
    [][\A h \in analysis.dim_handle :
          h.person_id # NULL =>
              \E h2 \in analysis'.dim_handle :
                  h2.handle_id = h.handle_id /\ h2.person_id = h.person_id]_vars

\* a later run with contacts has resolved and linked, and a handle that now
\* matches a contact method is still linked to its inferred person
C6_Witness ==
    /\ Len(log) >= 1
    /\ pc = "state_message_date"
    /\ run.contacts_synced
    /\ \E h \in analysis.dim_handle :
          /\ resolve_handle_to_person(analysis, h.value_normalized, h.handle_type)
                # NULL
          /\ \E q \in analysis.dim_person :
                q.person_id = h.person_id /\ q.source = "inferred"

\* C7: whatever load_handles calls carried a handle id, the target holds
\* exactly one row for it and its created_at is the clock of the first load.
C7_OneRowFirstCreatedAt ==
    \A id \in HandleIds :
        LET rows == {h \in analysis.dim_handle : h.handle_id = id}
        IN  IF first_load[id] = NULL THEN rows = {}
            ELSE /\ Cardinality(rows) = 1
                 /\ \A h \in rows : h.created_at = first_load[id]

\* a handle was loaded again at a later second than its first load
C7_Witness ==
    /\ call.op = "load_handles"
    /\ \E h \in analysis.dim_handle :
          /\ \E i \in 1..Len(call.arg) : call.arg[i].rowid = h.handle_id
          /\ h.updated_at > h.created_at

\* the last record of a load_handles input that carries a given handle id
LastFor(handles, i) ==
    \A j \in (i + 1)..Len(handles) : handles[j].rowid # handles[i].rowid

\* C8: load_handles stores the new record's raw value, normalized value and
\* type under its id and keeps the person link the row had before the call.
C8_OverwriteKeepsPerson ==
    [][(call'.n = call.n + 1 /\ call'.op = "load_handles") =>
          \A i \in 1..Len(call'.arg) :
              LastFor(call'.arg, i) =>
                  \E h \in analysis'.dim_handle :
                      /\ h.handle_id = call'.arg[i].rowid
                      /\ h.value_raw = call'.arg[i].value_raw
                      /\ h.value_normalized = call'.arg[i].value_normalized
                      /\ h.handle_type = call'.arg[i].handle_type
                      /\ h.person_id = HandlePerson(analysis, h.handle_id)]_vars

\* load_handles has rewritten a linked handle: its person was inferred from
\* another value than the one the row holds now
C8_Witness ==
    /\ call.op = "load_handles"
    /\ \E h \in analysis.dim_handle :
          /\ \E i \in 1..Len(call.arg) : call.arg[i].rowid = h.handle_id
          /\ h.person_id # NULL
          /\ \E q \in analysis.dim_person :
                /\ q.person_id = h.person_id
                /\ q.display_name
                      # UnknownDisplayName(h.value_normalized, h.handle_type)

MessageIdsOf(a) == {m.message_id : m \in a.fact_message}

\* C9: load_messages returns the number of distinct input ids that were not
\* stored before, and repeated with the same input it returns 0 and leaves
\* the number of stored rows unchanged.
C9_InsertIfAbsent ==
    [][(call'.n = call.n + 1 /\ call'.op = "load_messages") =>
          /\ call'.ret =
                Cardinality({call'.arg[i].rowid : i \in 1..Len(call'.arg)}
                            \ MessageIdsOf(analysis))
          /\ Repeated =>
                /\ call'.ret = 0
                /\ Cardinality(analysis'.fact_message)
                      = Cardinality(analysis.fact_message)]_vars

\* load_messages has returned 0 for an input whose messages are all stored
C9_Witness ==
    /\ call.op = "load_messages"
    /\ call.ret = 0
    /\ call.arg # <<>>
    /\ \A i \in 1..Len(call.arg) : call.arg[i].rowid \in MessageIdsOf(analysis)

\* C10: load_messages stores every message that is not yet stored, with its
\* handle id when dim_handle holds that id and with NULL otherwise.
C10_MissingHandleStoredAsNull ==
    [][(call'.n = call.n + 1 /\ call'.op = "load_messages") =>
          \A i \in 1..Len(call'.arg) :
              LET m == call'.arg[i]
              IN  (/\ m.rowid \notin MessageIdsOf(analysis)
                   /\ \A j \in 1..(i - 1) : call'.arg[j].rowid # m.rowid) =>
                      \E row \in analysis'.fact_message :
                          /\ row.message_id = m.rowid
                          /\ row.handle_id =
                                IF m.handle_id \in HandleIdsOf(analysis)
                                THEN m.handle_id ELSE NULL]_vars

\* one load_messages call has stored a message with its handle id and another
\* with NULL in place of a handle id that dim_handle does not hold
C10_Witness ==
    /\ call.op = "load_messages"
    /\ \E i \in 1..Len(call.arg) :
          \E row \in analysis.fact_message :
              /\ row.message_id = call.arg[i].rowid
              /\ row.created_at = clock
              /\ call.arg[i].handle_id # NULL
              /\ call.arg[i].handle_id \notin HandleIdsOf(analysis)
              /\ row.handle_id = NULL
    /\ \E i \in 1..Len(call.arg) :
          \E row \in analysis.fact_message :
              /\ row.message_id = call.arg[i].rowid
              /\ row.handle_id # NULL
              /\ row.handle_id = call.arg[i].handle_id

\* C11: resolve_all_handles called when no handle was loaded since its last
\* call returns 0, creates no person and changes no handle's person link.
C11_ResolveAllIdempotent ==
    [][(call'.n = call.n + 1 /\ call'.op = "resolve_all_handles" /\ call.settled) =>
          /\ call'.ret = 0
          /\ analysis'.dim_person = analysis.dim_person
          /\ \A h \in analysis.dim_handle :
                HandlePerson(analysis', h.handle_id) = h.person_id]_vars

\* resolve_all_handles has returned 0 on a target whose handles an earlier call
\* had linked, no handle having been loaded in between
C11_Witness ==
    /\ call.op = "resolve_all_handles"
    /\ call.was_settled
    /\ call.ret = 0
    /\ analysis.dim_handle # {}
    /\ analysis.dim_person # {}

\* the handles without a person, and what resolve finds for a handle
Unlinked(a) == {h \in a.dim_handle : h.person_id = NULL}

MatchOf(a, h) == resolve_handle_to_person(a, h.value_normalized, h.handle_type)

\* C12: after resolve_all_handles no handle is without a person and the count
\* returned is the number of handles that were; a handle resolve finds a match
\* for is linked to the matched contact method's person and gets no new person;
\* every other one is linked to a new inferred person of its own.
C12_ResolveAllLinksEvery ==
    [][(call'.n = call.n + 1 /\ call'.op = "resolve_all_handles") =>
          LET new == analysis'.dim_person \ analysis.dim_person
              unmatched == {h \in Unlinked(analysis) : MatchOf(analysis, h) = NULL}
          IN  /\ Unlinked(analysis') = {}
              /\ call'.ret = Cardinality(Unlinked(analysis))
              /\ analysis.dim_person \subseteq analysis'.dim_person
              /\ \A h \in Unlinked(analysis) \ unmatched :
                    HandlePerson(analysis', h.handle_id) = MatchOf(analysis, h)
              /\ \A q \in new : q.source = "inferred"
              /\ Cardinality(new) = Cardinality(unmatched)
              /\ \A h \in unmatched :
                    /\ HandlePerson(analysis', h.handle_id) \in {q.person_id : q \in new}
                    /\ \A g \in unmatched :
                          g.handle_id # h.handle_id =>
                              HandlePerson(analysis', g.handle_id)
                                  # HandlePerson(analysis', h.handle_id)]_vars

\* one call has linked the handle "+1 (415) 555-1234" to the person of the
\* contact method "+14155551234" and another handle to a new inferred person
C12_Witness ==
    /\ call.op = "resolve_all_handles"
    /\ call.ret = 2
    /\ \E h \in analysis.dim_handle, m \in analysis.dim_contact_method :
          /\ h.value_raw = StrPlus1Formatted
          /\ m.value_normalized = h.value_normalized
          /\ h.person_id = m.person_id
    /\ \E h \in analysis.dim_handle, q \in analysis.dim_person :
          q.person_id = h.person_id /\ q.source = "inferred"

\* the last 10 digits of a digit string, all of them when it has fewer
Suffix10(digits) ==
    SubSeq(digits, IF Len(digits) > 10 THEN Len(digits) - 9 ELSE 1, Len(digits))

\* the contact method a scan of dim_contact_method meets first
FirstOf(M) == CHOOSE m \in M : \A x \in M : m.method_id <= x.method_id

ExactMatches(a, value) == {m \in a.dim_contact_method : m.value_normalized = value}

C14_LinkCopiesOnce ==
    [][(call'.n = call.n + 1 /\ call'.op = "link_messages_to_persons") =>
          /\ \A m \in analysis.fact_message :
                IF m.person_id # NULL THEN m \in analysis'.fact_message
                ELSE (m.handle_id # NULL /\ HandlePerson(analysis, m.handle_id) # NULL)
                        => [m EXCEPT !.person_id = HandlePerson(analysis, m.handle_id)]
                              \in analysis'.fact_message
          /\ MessageIdsOf(analysis') = MessageIdsOf(analysis)
          /\ Repeated => call'.ret = 0]_vars

\* C15: a stored message keeps its chat id, timestamps, from-me flag, handle
\* reference and text through every later step; its person id changes only
\* from NULL to a value.
C15_MessageImmutable ==
    [][\A m \in analysis.fact_message :
          \E m2 \in analysis'.fact_message :
              /\ [m2 EXCEPT !.person_id = NULL] = [m EXCEPT !.person_id = NULL]
              /\ m.person_id # NULL => m2.person_id = m.person_id]_vars

\* load_messages was given a stored message again, once with another handle
\* id and once after the handle missing at its insertion was loaded, and the
\* stored row has the NULL handle reference and the second it was inserted at
C15_Witness ==
    /\ call.op = "load_messages"
    /\ call.ret = 0
    /\ \E i \in 1..Len(call.arg), m \in analysis.fact_message :
          /\ m.message_id = call.arg[i].rowid
          /\ call.arg[i].handle_id \in HandleIdsOf(analysis)
          /\ m.handle_id = NULL
          /\ m.created_at < clock

\* the source messages extract_messages keeps: those with a timestamp
ValidSrcMessages == {m \in chat.message : m.date # NULL /\ m.date # 0}

\* C16 as stated: the is_incremental flag of a run is true exactly when
\* force_full is off and etl_state held a last-message checkpoint when the run
\* started, and a run that is not incremental extracts every message.
C16_IncrementalExactly ==
    \A i \in 1..Len(log) :
        /\ log[i].result.is_incremental
              <=> (~log[i].force_full /\ log[i].checkpoint # NULL)
        /\ (log[i].result.success /\ ~log[i].result.is_incremental
                /\ log[i].src_edits = src_edits) =>
              log[i].result.messages_extracted = Cardinality(ValidSrcMessages)

\* C16 amended: that holds of every run that succeeds; a run that fails
\* reports is_incremental = true only under the same condition, and false
\* when it failed before it read the checkpoint.
C16_IncrementalOnSuccess ==
    \A i \in 1..Len(log) :
        /\ log[i].result.is_incremental
              => (~log[i].force_full /\ log[i].checkpoint # NULL)
        /\ log[i].result.success =>
              (log[i].result.is_incremental
                  <=> (~log[i].force_full /\ log[i].checkpoint # NULL))
        /\ (log[i].result.success /\ ~log[i].result.is_incremental
                /\ log[i].src_edits = src_edits) =>
              log[i].result.messages_extracted = Cardinality(ValidSrcMessages)

\* a run with force_full on a target that held a checkpoint has succeeded as
\* a full run and extracted a message older than the checkpoint
C16_Witness ==
    /\ pc = "idle"
    /\ Len(log) = 2
    /\ log[2].result.success
    /\ log[2].force_full
    /\ log[2].checkpoint # NULL
    /\ ~log[2].result.is_incremental
    /\ log[2].result.messages_extracted >= 2
    /\ log[2].src_edits = src_edits

\* two runs in succession, both successful and without a contacts database,
\* with no edit of the source between them
SuccessiveNoContacts(i) ==
    /\ i + 1 <= Len(log)
    /\ log[i].result.success
    /\ log[i + 1].result.success
    /\ log[i].contacts_db_path = "none"
    /\ log[i + 1].contacts_db_path = "none"
    /\ log[i].src_edits = log[i + 1].src_edits

\* C17: successive successful runs against an unchanged source, without a
\* contacts database, leave the same numbers of messages, handles and persons,
\* and as many handles as the source holds.
C17_SameCountsEveryRun ==
    \A i \in 1..Len(log) :
        SuccessiveNoContacts(i) =>
            /\ log[i + 1].messages = log[i].messages
            /\ log[i + 1].handles = log[i].handles
            /\ log[i + 1].persons = log[i].persons
            /\ log[i].handles = log[i].src_handles
            /\ log[i + 1].handles = log[i + 1].src_handles

\* a second run has left the message, the handle and the inferred person of
\* the first
C17_Witness ==
    /\ SuccessiveNoContacts(1)
    /\ log[2].messages >= 2
    /\ log[2].handles >= 1
    /\ log[2].persons >= 1

\* the database a file of the snapshots directory holds
SnapshotContent(path) == (CHOOSE f \in snap.files : f.name = path).content

\* C18: in run_etl_with_snapshot the live source is opened only by the
\* snapshot copy and only read-only; while run_etl runs the one file opened is
\* the snapshot, read-only, the handles and messages extracted are those of
\* the snapshot file, and no step of the invocation writes the live source.
C18_LiveSourceOnlyCopied ==
    [][/\ \A o \in snap'.opens :
             o.path.dir = "source"
                 => o.by = "create_timestamped_snapshot" /\ o.mode = "ro"
       /\ pc # "idle"
             => snap'.opens \ snap.opens
                    \subseteq {Opened(run.snapshot_path, "ro", "_open_chat_db")}
       /\ pc = "handles" /\ pc' = "messages"
             => run'.handles = extract_handles(SnapshotContent(run.snapshot_path))
       /\ pc = "messages" /\ pc' \notin {"messages", "idle"}
             => run'.messages =
                    extract_messages(SnapshotContent(run.snapshot_path),
                                     run.last_message_date)
       /\ chat' # chat
             => pc = "idle" /\ src_edits' = src_edits + 1 /\ snap' = snap]_vars

\* a successful run on a snapshot the source has moved away from
C18_Witness ==
    /\ pc = "idle"
    /\ log # <<>>
    /\ LastEntry.result.success
    /\ LastEntry.result.messages_extracted > 0
    /\ LastEntry.src_edits = 1
    /\ LastEntry.snapshot_path # NoPath
    /\ ~LastEntry.snapshot_created
    /\ SnapshotContent(LastEntry.snapshot_path) # chat

\* the snapshots made of a source: the files named after its stem
SnapshotsOf(files, stem) == {f \in files : f.name.stem = stem}

NewestOf(F) == CHOOSE f \in F : \A g \in F : g.name.ts <= f.name.ts

\* C19: get_or_create_snapshot makes a new snapshot if and only if force_new
\* is set, or the directory holds no snapshot of the source's stem, or the
\* newest one is older than max_age_days; otherwise it returns the newest
\* snapshot of the stem and the directory is left as it was.
C19_CreatesIffNeeded ==
    LET l == snap.last
        of == SnapshotsOf(l.before, snap.source.stem)
        age == l.now - NewestOf(of).name.ts
        older == IF l.frac THEN age >= l.max_age_days * SECONDS_PER_DAY
                 ELSE age > l.max_age_days * SECONDS_PER_DAY
    IN  l.by = "caller" /\ l.raised = ""
            => /\ l.copied <=> (l.force_new \/ of = {} \/ older)
               /\ ~l.copied => l.ret = NewestOf(of).name /\ snap.files = l.before

Range(q) == {q[i] : i \in 1..Len(q)}

\* the k newest of a set of files
NewestFiles(F, k) ==
    {f \in F : Cardinality({g \in F : g.name.ts > f.name.ts}) < k}

\* C21: cleanup_old_snapshots(keep_count) on a stem whose n snapshots can all
\* be unlinked deletes exactly the n - keep_count oldest of them and keeps
\* the keep_count newest; it never deletes a file of another stem; a file
\* whose unlink fails stays and every other old snapshot is still deleted.
C21_CleanupKeepsNewest ==
    call.op = "cleanup_old_snapshots"
        => LET before == call.arg.before
               of == SnapshotsOf(before, call.arg.source_stem)
               old == {f.name : f \in of \ NewestFiles(of, call.arg.keep_count)}
           IN  /\ Range(call.ret) = old \ call.arg.undeletable
               /\ snap.files = {f \in before : f.name \notin Range(call.ret)}

\* validate_etl has been called, nothing raised in it, on the source and
\* target as the last run_etl, a successful one, left them
ValidatedAfterSuccess ==
    /\ call.op = "validate_etl"
    /\ call.arg.fault = NULL
    /\ log # <<>>
    /\ LastEntry.result.success
    /\ LastEntry.src_edits = src_edits

CheckNamed(name) ==
    LET i == CHOOSE j \in 1..Len(call.ret.checks) : call.ret.checks[j].name = name
    IN  call.ret.checks[i]

\* C22: after a successful run_etl against a source, validate_etl on that
\* source and the target reports passed, with the handle count and the
\* message count checks passed, whatever runs the target went through before.
C22_ValidatesAfterSuccess ==
    ValidatedAfterSuccess
        => /\ call.ret.passed
           /\ CheckNamed("Handle count").passed
           /\ CheckNamed("Message count").passed

HardCheckNames ==
    {"Handle count", "Message count", "No orphan messages",
     "Phone normalization", "ETL state", "Date formats"}

\* C23 as stated: the passed flag of the report equals the conjunction of the
\* hard checks the report holds.
C23_PassedIsHardConjunction ==
    call.op = "validate_etl" /\ ~raised
        => (call.ret.passed <=>
                \A i \in 1..Len(call.ret.checks) :
                    call.ret.checks[i].name \in HardCheckNames
                        => call.ret.checks[i].passed)

\* C23: the passed flag is the conjunction of every check of the report: it
\* is true exactly when nothing raised in validate_etl, so that the report
\* holds no "Connection" check, and the six hard checks passed; the three
\* contact checks pass on every target run_etl produces.
C23_PassedIsConjunctionOfAll ==
    call.op = "validate_etl" /\ ~raised
        => LET checks == call.ret.checks
               names == {checks[i].name : i \in 1..Len(checks)}
               faulted == call.arg.fault # NULL
                          \/ analysis.etl_state.schema_version = ""
           IN  /\ call.ret.passed <=> \A i \in 1..Len(checks) : checks[i].passed
               /\ faulted <=> "Connection" \in names
               /\ faulted => ~call.ret.passed
               /\ ~faulted
                     => /\ HardCheckNames \subseteq names
                        /\ call.ret.passed
                               <=> \A n \in HardCheckNames : CheckNamed(n).passed
                        /\ \A i \in 1..Len(checks) :
                               checks[i].name \notin HardCheckNames
                                   => checks[i].passed

\* a report with the contact checks on a target that holds contact methods,
\* and failed by a hard check alone
C23_Witness ==
    /\ call.op = "validate_etl"
    /\ call.arg.fault = NULL
    /\ call.arg.include_contacts_checks
    /\ analysis.dim_contact_method # {}
    /\ Len(call.ret.checks) = 9
    /\ ~call.ret.passed

\* C24: validate_etl never raises and writes neither database; when a connect
\* or a query fails the report is not passed and its last check is the failed
\* check "Connection".
C24_ValidateNeverRaises ==
    [][call'.op = "validate_etl" /\ call' # call
          => /\ raised' = raised
             /\ analysis' = analysis
             /\ chat' = chat
             /\ LET checks == call'.ret.checks
                IN  call'.arg.fault # NULL \/ analysis.etl_state.schema_version = ""
                        => /\ ~call'.ret.passed
                           /\ checks # <<>>
                           /\ checks[Len(checks)] = ValidationCheck("Connection", FALSE)]_vars

\* validate_etl has reported a query that failed after checks had passed
C24_Witness ==
    /\ call.op = "validate_etl"
    /\ call.arg.fault = 7
    /\ analysis.etl_state.schema_version # ""
    /\ Len(call.ret.checks) = 8
    /\ call.ret.checks[1].passed
    /\ ~call.ret.passed

\* the source message a Message object was built from
SourceOf(msg) == CHOOSE m \in chat.message : m.ROWID = msg.rowid

RECURSIVE DigitsOf(_)
DigitsOf(s) ==
    IF s = <<>> THEN <<>>
    ELSE (IF Head(s) \in Digits THEN <<Head(s)>> ELSE <<>>) \o DigitsOf(Tail(s))

\* the first character of a string that is not whitespace, "" when none
RECURSIVE FirstTrimmed(_)
FirstTrimmed(s) ==
    IF s = <<>> THEN ""
    ELSE IF Head(s) \in Whitespace THEN FirstTrimmed(Tail(s))
    ELSE Head(s)

\* C26: normalize_phone follows the decision table: the input unchanged when
\* it has no digit; "+" and the digits when the trimmed input starts with "+";
\* "+1" and the digits when there are exactly ten; "+" and the digits when
\* there are eleven starting with 1 or at least seven; the input unchanged
\* otherwise. A string of ten digits d gives "+1" followed by d.
C26_PhoneDecisionTable ==
    call.op = "normalize_phone"
        => LET raw == call.arg
               digits == DigitsOf(raw)
               out == call.ret.once
           IN  /\ out = (IF Len(digits) = 0 THEN raw
                         ELSE IF FirstTrimmed(raw) = "+" THEN <<"+">> \o digits
                         ELSE IF Len(digits) = 10 THEN <<"+", "1">> \o digits
                         ELSE IF (Len(digits) = 11 /\ digits[1] = "1")
                                 \/ Len(digits) >= 7
                              THEN <<"+">> \o digits
                         ELSE raw)
               /\ (raw = digits /\ Len(raw) = 10) => out = <<"+", "1">> \o raw

\* normalize_phone was given ten digits and separators without a plus sign
C26_Witness ==
    /\ call.op = "normalize_phone"
    /\ Len(DigitsOf(call.arg)) = 10
    /\ call.arg # DigitsOf(call.arg)
    /\ FirstTrimmed(call.arg) = "("
    /\ call.ret.once = <<"+", "1">> \o DigitsOf(call.arg)

\* C27: the three normalizers return a value on every input, the division of
\* detect_contact_type is never by zero, and each applied to its own output
\* returns that output: for normalize_handle the same value and the same
\* type, one of phone, email and unknown.
C27_TotalAndIdempotent ==
    /\ \A value \in {call.arg} :
          LET cleaned == Strip(value)
          IN  Len(ExtractDigits(cleaned)) \in 7..15
                  => Len(DropSpacesHyphens(cleaned)) > 0
    /\ call.op \in {"normalize_phone", "normalize_email"}
          => /\ call.ret.once \in Seq({call.arg[i] : i \in 1..Len(call.arg)}
                                      \cup {"+", "1"}
                                      \cup {Lower[i] : i \in 1..26})
             /\ call.ret.twice = call.ret.once
    /\ call.op = "normalize_handle"
          => /\ call.ret.once[2] \in {"phone", "email", "unknown"}
             /\ call.ret.twice = call.ret.once

\* normalize_handle changed a phone number of ten digits and kept its output
C27_Witness ==
    /\ call.op = "normalize_handle"
    /\ call.ret.once[2] = "phone"
    /\ call.ret.once[1] # call.arg
    /\ Len(ExtractDigits(call.arg)) = 10
    /\ call.ret.twice = call.ret.once

\* message ids of the target
LoadedIds == {m.message_id : m \in analysis.fact_message}

\* C28: incremental sync loses no message: when a run has succeeded on the
\* source as it is, every source message with a valid timestamp is in the
\* target, whatever runs came before and whatever was added between them.
C28_NoMessageLost ==
    (/\ pc = "idle"
     /\ log # <<>>
     /\ log[Len(log)].result.success
     /\ log[Len(log)].src_edits = src_edits)
        => \A m \in ValidSrcMessages : m.ROWID \in LoadedIds

\* last_message_date of etl_state
Checkpoint(a) == get_etl_state(a, "last_message_date")

\* C30: the last-message checkpoint never moves backwards: no step of a run,
\* incremental or forced, on a source that gained or lost messages, stores a
\* checkpoint smaller than the one it replaces or removes the checkpoint, and
\* a run that extracted no message leaves it as it was.
C30_CheckpointMonotone ==
    [][/\ Checkpoint(analysis) # NULL
          => /\ Checkpoint(analysis') # NULL
             /\ Checkpoint(analysis') >= Checkpoint(analysis)
       /\ (pc = "state_message_date" /\ run.messages = <<>>)
          => Checkpoint(analysis') = Checkpoint(analysis)]_vars

\* C29 as stated: in every state a run leaves, every message some run
\* extracted whose timestamp is not later than the stored checkpoint is in the
\* target.
C29_CoveredAreCommitted ==
    pc = "idle"
        => \A i \in 1..Len(log) : \A x \in log[i].extracted :
              (Checkpoint(analysis) # NULL /\ x.date_utc <= Checkpoint(analysis))
                  => x.rowid \in LoadedIds

\* C29: the checkpoint is stored only by the checkpoint step of a run, after
\* every message the run extracted is committed, and it is the latest of their
\* timestamps; the last-sync timestamp is stored only by the step after it; a
\* run that fails before its checkpoint step leaves the checkpoint it found;
\* every message a successful run extracted is in the target. A forced run
\* that fails can have extracted a message not later than the stored
\* checkpoint that the target does not hold.
C29_CheckpointAfterCommit ==
    [][/\ Checkpoint(analysis') # Checkpoint(analysis)
          => /\ pc = "state_message_date"
             /\ run.messages # <<>>
             /\ \A i \in 1..Len(run.messages) :
                   /\ run.messages[i].rowid \in LoadedIds
                   /\ run.messages[i].date_utc <= Checkpoint(analysis')
             /\ \E i \in 1..Len(run.messages) :
                   run.messages[i].date_utc = Checkpoint(analysis')
       /\ get_etl_state(analysis', "last_sync") # get_etl_state(analysis, "last_sync")
          => pc = "state_last_sync"
       /\ (pc' = "idle" /\ pc \notin {"idle", "return", "state_last_sync"})
          => Checkpoint(analysis') = recovery.checkpoint
       /\ \A i \in 1..Len(log') :
             log'[i].result.success
                 => \A x \in log'[i].extracted :
                       x.rowid \in {m.message_id : m \in analysis'.fact_message}]_vars

\* a forced run failed after it extracted a message that the target lacks,
\* and left the checkpoint it found
C29_Witness ==
    /\ pc = "idle"
    /\ log # <<>>
    /\ ~log[Len(log)].result.success
    /\ log[Len(log)].force_full
    /\ \E x \in log[Len(log)].extracted :
          x.rowid \notin LoadedIds /\ x.date_utc <= Checkpoint(analysis)
    /\ Checkpoint(analysis) = log[Len(log)].checkpoint
    /\ Checkpoint(analysis) # NULL

\* a run has returned success and nothing has been started since
AfterSuccessfulRun ==
    /\ pc = "idle"
    /\ log # <<>>
    /\ log[Len(log)].result.success

\* C31: after every successful run each message with a handle reference has
\* the person of that handle: its person_id is not NULL and equals the
\* person_id of the dim_handle row its handle_id names.
C31_MessagePersonIsHandlePerson ==
    AfterSuccessfulRun
        => \A m \in analysis.fact_message :
              m.handle_id # NULL
                  => /\ m.person_id # NULL
                     /\ \E h \in analysis.dim_handle :
                           h.handle_id = m.handle_id /\ h.person_id = m.person_id

\* a run without the contacts database linked a message, and a second
\* successful run with the contacts database came after it
C31_Witness ==
    /\ AfterSuccessfulRun
    /\ Len(log) = 2
    /\ log[1].result.success
    /\ log[1].contacts_db_path = "none"
    /\ log[2].contacts_db_path = "ok"
    /\ \E m \in analysis.fact_message :
          m.handle_id # NULL /\ m.person_id # NULL

\* C32: every connection a run opened is closed when the run returns, on
\* success and on every failure, a contacts connection whose probe query
\* failed included.
C32_AllHandlesClosed ==
    \A i \in 1..Len(log) : log[i].open = {}

\* C33: the name of a snapshot that get_or_create_snapshot has just created
\* parses as a snapshot of the source's stem created at that time, so that
\* the listing holds it and the next call finds it as the latest snapshot.
C33_NameRoundTrips ==
    LET l == snap.last
        info == _parse_snapshot_filename(l.ret)
    IN  (l.copied /\ l.raised = "")
            => /\ info # NoInfo
               /\ info.source_stem = snap.source.stem
               /\ info.created_at = l.now
               /\ info \in list_snapshots(snap.files, snap.source.stem)
               /\ get_latest_snapshot(snap.files, snap.source.stem).path = l.ret

\* dim_handle after load_handles stored one handle with these values
OneHandle(value_raw, normalized) ==
    UpsertHandle(EmptyAnalysis,
                 [rowid |-> 1, value_raw |-> value_raw,
                  value_normalized |-> normalized[1],
                  handle_type |-> normalized[2]], 0)

\* C34: a value normalize_handle classifies as phone is normalized to "+"
\* followed by 7 to 15 digits, and the handle loaded with it passes the
\* validator's phone normalization check.
C34_PhoneIsE164 ==
    (call.op = "normalize_handle" /\ call.ret.once[2] = "phone")
        => LET value == call.ret.once[1]
               digits == DigitsOf(value)
           IN  /\ value = <<"+">> \o digits
               /\ Len(digits) \in 7..15
               /\ check_normalization_quality(OneHandle(call.arg, call.ret.once)).passed

\* a value of fifteen digits and no plus sign was classified as phone
C34_Witness ==
    /\ call.op = "normalize_handle"
    /\ call.ret.once[2] = "phone"
    /\ Len(DigitsOf(call.arg)) = 15
    /\ FirstTrimmed(call.arg) # "+"
    /\ Len(call.ret.once[1]) = 16
====
